---------------------------- MODULE Spec2Model ----------------------------
(***************************************************************************)
(* A model of FlexUpdateMc: the chunk-generation orchestrator and its       *)
(* staging of server.properties (flex-mc/src/infra/chunk_generator.rs),     *)
(* the bot spawner and its handles (flex-mc/src/infra/bot_spawner.rs), and  *)
(* chunk positions, region files and block states                           *)
(* (flex-mc/src/infra/region_loader.rs); the listing of region files        *)
(* (bin/src/service/region_handler.rs); and, of ssmc-core, the file trie    *)
(* (util/file_trie.rs), its conversion to and from a directory              *)
(* (util/fs_converter.rs, infra/fs_handler.rs), the writing of a file      *)
(* bundle (infra/file_bundle_loader.rs, domain/fs_content.rs), the path     *)
(* segments (infra/virtual_fs.rs), the runtime resolver (infra/mc_java.rs)  *)
(* and the server resolver (infra/vanilla.rs); and the server executors     *)
(* (bin/src/service/server_executor.rs).  Each                              *)
(* subsystem has its own next-state relation and specification; the         *)
(* variables of the other subsystems stay at their initial values.          *)
(***************************************************************************)
EXTENDS Integers, Sequences, FiniteSets, TLC

VARIABLES
    \* ---- generate_chunks (chunk_generator.rs) ----
    chunk_list,      \* the requested chunks (the slice, as a set of ChunkPos)
    max_bot_count,   \* DefaultChunkGenerator.max_bot_count
    quad_chunks,     \* the BTreeSet of QuadChunkPos, as its sorted sequence
    gen_pc,          \* position of generate_chunks in its body
    gen_result,      \* "none" while running, then "Ok" or "Err"
    child,           \* the server child: "none", "running", "exited", "killed"
    reaped,          \* child.wait() has returned
    stdin,           \* the command lines the server stdin has received, in order
    srv_done,        \* how many of them the server has executed
    srv_ready,       \* the server has printed its readiness line
    lines,           \* server stdout lines written and not yet read
    bots,            \* the handles pushed to `bots`: "running", "stopped", "killed"
    spawn_calls,     \* how many times spawn_bot was called
    batch,           \* 1-based number of the current chunk batch
    k,               \* 1-based index of the next chunk of the batch to write for
    success_count,
    failure_count,
    ready_seen,      \* the readiness line has been read by generate_chunks
    confirmed,       \* chunks covered by a success reply that was read
    noise_left,      \* unrelated log lines the server may still print
    fail_left,       \* "not loaded" replies the server may still give
    unflushed,       \* lines written to the server stdin since the last flush()
    \* ---- spawn_bot (bot_spawner.rs) ----
    by_new,          \* the spawner was built by AzaleaBotSpawner::new
    max_retries,     \* AzaleaBotSpawner.max_retries
    bot_pc,          \* "idle", "start" (top of the loop), "login", "returned"
    retry_count,
    started,         \* bot subprocesses started by this call
    emitted,         \* emitted[i]: the stdout lines subprocess i has written
    pipe,            \* lines of the current subprocess written and not yet read
    proc_open,       \* the current subprocess still holds its stdout open
    bot_result,      \* "none", "Ok", "LoginFailed", "ParseError", "SpawnError"
    attempts,        \* the attempt count reported by the login error
    owner,           \* the subprocess owned by the returned handle (0: none)
    reader,          \* the event-reader thread: "none", "running", "exited"
    chunk_rx,        \* the (x, z) pairs sent on the channel of this attempt
    rx_alive,        \* the receiver has not been dropped
    lines_left,      \* stdout lines the subprocesses may still write
    leaked,          \* earlier subprocesses of the call that still run, each with its stderr thread
    \* ---- server.properties staging (chunk_generator.rs:199-222) ----
    props,           \* the properties map: key -> value, Absent for no entry
    props_orig,      \* the map read from the tree before the first overlay
    props_prev,      \* the map as it was before the latest overlay
    ports,           \* the ports find_free_port chose, one per staging
    \* ---- AzaleaBotHandle (bot_spawner.rs:190-229) ----
    platform,        \* "unix" or "windows": what Child::kill does differs
    handles,         \* handles[i]: one AzaleaBotHandle and its child process
    \* ---- ChunkPos (region_loader.rs:138-157, bin region_handler.rs:45-48) ----
    chunk_pos,       \* the ChunkPos the methods are called on
    region_of,       \* <<what ChunkPos::region returned>>, <<>> before the call
    offset_of,       \* <<what ChunkPos::region_offset returned>>, or <<>>
    region_coords,   \* <<what chunk_to_region_coords returned>>, or <<>>
    \* ---- Region (region_loader.rs:32-72) ----
    reg_pos,         \* Region.pos
    raw,             \* Region.raw: the bytes stored at each offset, or NoChunk
    saved,           \* per chunk position, the chunk of the last Ok save_chunk
    save_calls,      \* how many times save_chunk was called
    load_result,     \* <<[pos, res]>> of the latest load_chunk, <<>> before it
    \* ---- Blockstates (region_loader.rs:177-229) ----
    palette_len,     \* palette.len()
    has_data,        \* data is Some (a zero-filled long array)
    bits_per_block,  \* the cached width: <<>> for None, <<bits>> for Some(bits)
    block_result,    \* <<[panic, index]>> of the latest get_block, or <<>>
    \* ---- Chunk (region_loader.rs:75-98) ----
    sections_len,    \* sections.len()
    chunk_result,    \* <<[x, y, z, kind]>> of Chunk::get_block, or <<>>
    \* ---- AnvilRegionHandler::list_chunks (bin region_handler.rs:56-87) ----
    dir_exists,      \* region_dir.exists()
    dir_files,       \* the files of region_dir: a set of [name, present]
    listed,          \* <<the set of positions list_chunks returned>>, or <<>>
    \* ---- region file names (region_loader.rs:110-126, region_handler.rs:17-32) ----
    file_name,       \* the name given to the parsers
    parsed,          \* <<result of RegionPos::try_parse_file_name>>, or <<>>
    parsed_bin,      \* <<result of parse_region_filename>>, or <<>>
    \* ---- Dir, the file trie (ssmc-core util/file_trie.rs:102-228) ----
    tree,            \* the root Dir
    tree_prev,       \* the root Dir as it was before the latest call
    tree_op,         \* <<[op, path, entry, ok, found]>> of the latest call
    tree_ops,        \* how many calls were made
    \* ---- TrieToFsConverter, FsToTrieConverter (ssmc-core util/fs_converter.rs) ----
    fs_handler,      \* the FsHandler in use: "default" or "on_memory"
    mount_tree,      \* the Dir given to write_directory
    disk,            \* the directory D: [files: path -> bytes, dirs: set of paths]
    mount_pc,        \* "start", "written" after write_directory, then "loaded"
    loaded,          \* <<[ok, dir]>> returned by load_directory, <<>> before it
    \* ---- DefaultFileBundleLoader::write_contents (ssmc-core infra/file_bundle_loader.rs) ----
    wc_bundle,       \* the FileBundle: a set of [path, source], one per path
    max_concurrency, \* DefaultFileBundleLoader.max_concurrency
    wc_pc,           \* "dirs", "files" or "returned"
    wc_created,      \* the directory entries created so far, in order
    wc_started,      \* [path, after_error] of the file writes started, in order
    wc_results,      \* [path, ok] of the file writes that ended, in order
    wc_result,       \* "none" while running, then "Ok" or "Err"
    \* ---- path segments (ssmc-core util/file_trie.rs:10-45, infra/virtual_fs.rs:15-102) ----
    raw_path,        \* a path string, as the sequence of its characters
    seg_virtual,     \* <<[panic, segments]>> of VirtualPath::from_str, or <<>>
    seg_put,         \* <<[ok, path]>> of put_file(Path::from_str(..)), or <<>>
    seg_tree,        \* the Dir the runtime manifest is put into
    seg_disk,        \* <<the disk after the Dir was mounted>>, or <<>>
    \* ---- DefaultMcJavaLoader::ready_runtime (ssmc-core infra/mc_java.rs:113-169) ----
    rt_disk,         \* the paths that exist below cache_path
    rt_log,          \* one record per ready_runtime call that returned, in order
    \* ---- VanillaVersionLoader::ready_server (ssmc-core infra/vanilla.rs:50-130) ----
    vs_world,        \* the world_data Dir given to ready_server
    vs_request,      \* <<[id, remote]>> once ready_server was called, <<>> before
    vs_result,       \* <<what ready_server returned>>, <<>> before
    \* ---- ServerExecutor (bin service/server_executor.rs) ----
    ex_mock,         \* the MockServerExecutor
    ex_child,        \* the ChildProcessServerExecutor and the lines its pipe received
    ex_calls,        \* one record per call made on both executors, in order
    \* ---- the bot handle and the stderr thread (bot_spawner.rs:106-117, 190-229) ----
    handle_end,      \* "none", or how the returned handle ended: "stopped", "dropped"
    err_reader_exited \* the stderr thread of the handle's subprocess has ended

genVars == <<chunk_list, max_bot_count, quad_chunks, gen_pc, gen_result, child,
             reaped, stdin, srv_done, srv_ready, lines, bots, spawn_calls, batch,
             k, success_count, failure_count, ready_seen, confirmed, noise_left,
             fail_left, unflushed>>

botVars == <<by_new, max_retries, bot_pc, retry_count, started, emitted, pipe,
             proc_open, bot_result, attempts, owner, reader, chunk_rx, rx_alive,
             lines_left, leaked>>

propsVars == <<props, props_orig, props_prev, ports>>

handleVars == <<platform, handles>>

posVars == <<chunk_pos, region_of, offset_of, region_coords>>

regionVars == <<reg_pos, raw, saved, save_calls, load_result>>

blockVars == <<palette_len, has_data, bits_per_block, block_result>>

chunkVars == <<sections_len, chunk_result>>

listVars == <<dir_exists, dir_files, listed>>

nameVars == <<file_name, parsed, parsed_bin>>

\* what an action of generate_chunks, and one of spawn_bot, leaves alone
\* the variables of the subsystems above, and of the ones that follow them
baseVars == <<genVars, botVars, propsVars, handleVars, posVars, regionVars,
              blockVars>>

treeVars == <<tree, tree_prev, tree_op, tree_ops>>

mountVars == <<fs_handler, mount_tree, disk, mount_pc, loaded>>

\* the variables of the ssmc-core subsystems
bundleVars == <<wc_bundle, max_concurrency, wc_pc, wc_created, wc_started,
                wc_results, wc_result>>

lateVars == <<treeVars, mountVars, bundleVars>>

\* the variables of the flex-mc and bin subsystems
earlyVars == <<baseVars, chunkVars, listVars, nameVars>>

segVars == <<raw_path, seg_virtual, seg_put, seg_tree, seg_disk>>

rtVars == <<rt_disk, rt_log>>

\* the variables of the resolvers and of the server executors
vsVars == <<vs_world, vs_request, vs_result>>

exVars == <<ex_mock, ex_child, ex_calls>>

afterVars == <<handle_end, err_reader_exited>>

restVars == <<rtVars, vsVars, exVars, afterVars>>

moreVars == <<segVars, restVars>>

extraVars == <<chunkVars, listVars, nameVars, lateVars, moreVars>>

nonGenVars == <<botVars, propsVars, handleVars, posVars, regionVars, blockVars,
                extraVars>>

nonBotVars == <<genVars, propsVars, handleVars, posVars, regionVars, blockVars,
                extraVars>>

vars == <<genVars, botVars, propsVars, handleVars, posVars, regionVars, blockVars,
          extraVars>>

(***************************************************************************)
(* Bounds of the model.                                                    *)
(***************************************************************************)
MaxChunks == 2        \* requested chunks per call
MaxBots == 2          \* largest max_bot_count tried
MaxNoise == 1         \* unrelated server log lines per run
MaxFail == 1          \* "That position is not loaded" replies per run

ChunkXs == {-1, 0, 1, 2}
ChunkZs == {-1, 0}
ChunkUniverse == {[x |-> x, z |-> z] : x \in ChunkXs, z \in ChunkZs}

Min(a, b) == IF a < b THEN a ELSE b

(***************************************************************************)
(* QuadChunkPos (chunk_generator.rs:354-396).  isize::div_euclid with a     *)
(* positive divisor is the floored division \div.                           *)
(***************************************************************************)
from_chunk(c) == [x |-> c.x \div 2, z |-> c.z \div 2]

region_pos(q) == [x |-> q.x \div 16, z |-> q.z \div 16]

PairLess(a, b) == a.x < b.x \/ (a.x = b.x /\ a.z < b.z)

\* cmp_private: by region first, then by (x, z)
cmp_private_less(a, b) ==
    IF region_pos(a) # region_pos(b)
    THEN PairLess(region_pos(a), region_pos(b))
    ELSE PairLess(a, b)

\* the centre of a single 16x16 chunk in place of the centre of the 2x2 group
center_of_one_chunk(q) == [x |-> q.x * 16 + 8, z |-> q.z * 16 + 8]

\* lines 371-377: the block at the centre of the 2x2 group of chunks
center_block_pos(q) == [x |-> q.x * 32 + 16, z |-> q.z * 32 + 16]

\* iteration order of BTreeSet<QuadChunkPos>
RECURSIVE SortQuads(_)
SortQuads(S) ==
    IF S = {} THEN <<>>
    ELSE LET m == CHOOSE a \in S : \A b \in S : a = b \/ cmp_private_less(a, b)
         IN <<m>> \o SortQuads(S \ {m})

\* itertools chunks(max_bot_count): the b-th batch of quad_chunks
NumBatches == (Len(quad_chunks) + max_bot_count - 1) \div max_bot_count

Batch(b) == SubSeq(quad_chunks, (b - 1) * max_bot_count + 1,
                   Min(b * max_bot_count, Len(quad_chunks)))

(***************************************************************************)
(* Console lines.  A command is <<name, bot index, x, z>>, a stdout line is *)
(* [kind, x, z]: the code reads only the kind (ends_with / contains); x, z  *)
(* remember which probe a reply answers.  The height of a tp and of a clone *)
(* is the literal 100 of the format string and is left out of the tuple.    *)
(***************************************************************************)
\* a tp line that names the first bot whatever the index
TpLineFirstBot(idx, q) == <<"tp", 0, center_block_pos(q).x, center_block_pos(q).z>>

TpLine(idx, q) == <<"tp", idx, center_block_pos(q).x, center_block_pos(q).z>>

\* clone (x-1, 100, z-1) (x, 100, z) onto itself: the probe of one quad chunk
CloneLine(q) == <<"clone", -1, center_block_pos(q).x, center_block_pos(q).z>>

\* the graceful shutdown command in place of the save
FinalCommandStop == <<"stop", -1, 0, 0>>

\* line 337: the command written once every batch is done
FinalCommand == <<"save-all", -1, 0, 0>>

OutLine(kind, x, z) == [kind |-> kind, x |-> x, z |-> z]

\* the chunks holding the four blocks (x-1..x, z-1..z) a clone probe touches
ProbedChunks(x, z) ==
    {[x |-> bx \div 16, z |-> bz \div 16] : bx \in {x - 1, x}, bz \in {z - 1, z}}


(***************************************************************************)
(* generate_chunks: the state after the call is entered.                    *)
(***************************************************************************)
GenInit ==
    /\ chunk_list \in {S \in SUBSET ChunkUniverse : Cardinality(S) <= MaxChunks}
    /\ max_bot_count \in 1..MaxBots
    /\ quad_chunks = SortQuads({from_chunk(c) : c \in chunk_list})
    /\ gen_pc = "stage"
    /\ gen_result = "none"
    /\ child = "none"
    /\ reaped = FALSE
    /\ stdin = <<>>
    /\ srv_done = 0
    /\ srv_ready = FALSE
    /\ lines = <<>>
    /\ bots = <<>>
    /\ spawn_calls = 0
    /\ batch = 1
    /\ k = 1
    /\ success_count = 0
    /\ failure_count = 0
    /\ ready_seen = FALSE
    /\ confirmed = {}
    /\ noise_left = MaxNoise
    /\ fail_left = MaxFail
    /\ unflushed = 0

\* A `?` return after the bots vector exists: the locals are dropped.  Dropping a
\* bot handle kills its process (bot_spawner.rs:222-229); dropping a
\* std::process::Child neither kills nor reaps it.
GenReturnErr ==
    /\ gen_pc' = "done"
    /\ gen_result' = "Err"
    /\ bots' = [i \in DOMAIN bots |-> IF bots[i] = "running" THEN "killed" ELSE bots[i]]

\* ChildStdin::write reaches the server only while the read end is open
StdinOpen == child = "running"

\* stdout reports end of stream once the child is gone and the pipe is drained
StdoutEof == child # "running" /\ lines = <<>>

\* the batch loop starting over once its last batch is done
EnterBatchStartOver(b) ==
    /\ batch' = IF b > NumBatches THEN 1 ELSE b
    /\ k' = 1
    /\ gen_pc' = IF b > NumBatches THEN "save_all" ELSE "tp"

\* the position after batch b-1 is done: the next batch, or the end of the loop
EnterBatch(b) ==
    /\ batch' = b
    /\ k' = 1
    /\ gen_pc' = IF b > NumBatches THEN "save_all" ELSE "tp"

\* Phase A (lines 180-232): ready_server, port, server.properties, eula, mount.
\* Any of these steps may fail, which returns before the server is spawned.
Stage ==
    /\ gen_pc = "stage"
    /\ \/ /\ gen_pc' = "launch"
          /\ UNCHANGED gen_result
       \/ /\ gen_pc' = "done"
          /\ gen_result' = "Err"
    /\ UNCHANGED <<chunk_list, max_bot_count, quad_chunks, unflushed,
                   child, reaped, stdin,
                   srv_done, srv_ready, lines, bots, spawn_calls, batch, k,
                   success_count, failure_count, ready_seen, confirmed,
                   noise_left, fail_left>>
    /\ UNCHANGED nonGenVars

\* lines 236-244: command.spawn()?
Launch ==
    /\ gen_pc = "launch"
    /\ \/ /\ child' = "running"
          /\ gen_pc' = "await_ready"
          /\ UNCHANGED gen_result
       \/ /\ gen_pc' = "done"
          /\ gen_result' = "Err"
          /\ UNCHANGED child
    /\ UNCHANGED <<chunk_list, max_bot_count, quad_chunks, unflushed,
                   reaped, stdin,
                   srv_done, srv_ready, lines, bots, spawn_calls, batch, k,
                   success_count, failure_count, ready_seen, confirmed,
                   noise_left, fail_left>>
    /\ UNCHANGED nonGenVars

\* lines 245-253: one turn of `while let Some(line) = lines.next()`; the loop
\* ends on the readiness line and also when the stream ends
AwaitReady ==
    /\ gen_pc = "await_ready"
    /\ \/ /\ lines # <<>>
          /\ lines' = Tail(lines)
          /\ IF Head(lines).kind = "ready"
             THEN gen_pc' = "spawn_bots" /\ ready_seen' = TRUE
             ELSE UNCHANGED <<gen_pc, ready_seen>>
       \/ /\ StdoutEof
          /\ gen_pc' = "spawn_bots"
          /\ UNCHANGED <<lines, ready_seen>>
    /\ UNCHANGED <<chunk_list, max_bot_count, quad_chunks, unflushed,
                   gen_result, child,
                   reaped, stdin, srv_done, srv_ready, bots, spawn_calls, batch,
                   k, success_count, failure_count, confirmed, noise_left,
                   fail_left>>
    /\ UNCHANGED nonGenVars

\* lines 258-264: one turn of the spawn loop; spawn_bot(...).await? either
\* yields a handle or returns its error
SpawnBot ==
    /\ gen_pc = "spawn_bots"
    /\ spawn_calls' = spawn_calls + 1
    /\ \/ /\ bots' = Append(bots, "running")
          /\ IF Len(bots) + 1 = max_bot_count
             THEN EnterBatch(1)
             ELSE UNCHANGED <<gen_pc, batch, k>>
          /\ UNCHANGED gen_result
       \/ /\ GenReturnErr
          /\ UNCHANGED <<batch, k>>
    /\ UNCHANGED <<chunk_list, max_bot_count, quad_chunks, unflushed,
                   child, reaped, stdin,
                   srv_done, srv_ready, lines, success_count, failure_count,
                   ready_seen, confirmed, noise_left, fail_left>>
    /\ UNCHANGED nonGenVars

\* lines 281-289: one tp line per chunk of the batch (stdin.write), then one
\* stdin.flush() after the last of them, and a sleep
WriteTp ==
    /\ gen_pc = "tp"
    /\ IF StdinOpen
       THEN /\ stdin' = Append(stdin, TpLine(k - 1, Batch(batch)[k]))
            /\ IF k = Len(Batch(batch))
               THEN gen_pc' = "probe" /\ k' = 1 /\ unflushed' = 0
               ELSE k' = k + 1 /\ unflushed' = unflushed + 1 /\ UNCHANGED gen_pc
            /\ UNCHANGED <<gen_result, bots>>
       ELSE /\ GenReturnErr
            /\ UNCHANGED <<stdin, k, unflushed>>
    /\ UNCHANGED <<chunk_list, max_bot_count, quad_chunks, child, reaped,
                   srv_done, srv_ready, lines, spawn_calls, batch, success_count,
                   failure_count, ready_seen, confirmed, noise_left, fail_left>>
    /\ UNCHANGED nonGenVars

\* lines 292-303: one clone probe per chunk of the batch, flush, reset counters
WriteProbe ==
    /\ gen_pc = "probe"
    /\ IF StdinOpen
       THEN /\ stdin' = Append(stdin, CloneLine(Batch(batch)[k]))
            /\ IF k = Len(Batch(batch))
               THEN /\ gen_pc' = "read"
                    /\ k' = 1
                    /\ unflushed' = 0
                    /\ success_count' = 0
                    /\ failure_count' = 0
               ELSE /\ k' = k + 1
                    /\ unflushed' = unflushed + 1
                    /\ UNCHANGED <<gen_pc, success_count, failure_count>>
            /\ UNCHANGED <<gen_result, bots>>
       ELSE /\ GenReturnErr
            /\ UNCHANGED <<stdin, k, unflushed, success_count, failure_count>>
    /\ UNCHANGED <<chunk_list, max_bot_count, quad_chunks, child, reaped,
                   srv_done, srv_ready, lines, spawn_calls, batch, ready_seen,
                   confirmed, noise_left, fail_left>>
    /\ UNCHANGED nonGenVars

\* a slip in the exit test of 'wait_gen: the batch is left once every probe is answered
BreakWaitGenAnyReply(failures) == TRUE

\* lines 313-317: with every probe answered, leave 'wait_gen only if none failed
BreakWaitGen(failures) == failures = 0

\* lines 304-320: one turn of the reply loop `while let Some(line) = lines.next()`
ReadReply ==
    /\ gen_pc = "read"
    /\ \/ /\ lines # <<>>
          /\ lines' = Tail(lines)
          /\ LET line == Head(lines)
                 f == failure_count + (IF line.kind = "not_loaded" THEN 1 ELSE 0)
                 s == success_count + (IF line.kind = "cloned" THEN 1 ELSE 0)
             IN /\ failure_count' = f
                /\ success_count' = s
                /\ confirmed' = IF line.kind = "cloned"
                                THEN confirmed \cup ProbedChunks(line.x, line.z)
                                ELSE confirmed
                /\ IF s + f = Len(Batch(batch))
                   THEN IF BreakWaitGen(f)
                        THEN EnterBatch(batch + 1)
                        ELSE gen_pc' = "probe" /\ k' = 1 /\ UNCHANGED batch
                   ELSE UNCHANGED <<gen_pc, batch, k>>
       \/ /\ StdoutEof
          /\ gen_pc' = "probe"
          /\ k' = 1
          /\ UNCHANGED <<lines, failure_count, success_count, confirmed, batch>>
    /\ UNCHANGED <<chunk_list, max_bot_count, quad_chunks, unflushed,
                   gen_result, child,
                   reaped, stdin, srv_done, srv_ready, bots, spawn_calls,
                   ready_seen, noise_left, fail_left>>
    /\ UNCHANGED nonGenVars

\* lines 337-339: the last command (stdin.write, no flush), then a 30 s sleep
SaveAll ==
    /\ gen_pc = "save_all"
    /\ IF StdinOpen
       THEN /\ stdin' = Append(stdin, FinalCommand)
            /\ unflushed' = unflushed + 1
            /\ gen_pc' = "stop_bots"
            /\ UNCHANGED <<gen_result, bots>>
       ELSE /\ GenReturnErr
            /\ UNCHANGED <<stdin, unflushed>>
    /\ UNCHANGED <<chunk_list, max_bot_count, quad_chunks, child, reaped,
                   srv_done, srv_ready, lines, spawn_calls, batch, k,
                   success_count, failure_count, ready_seen, confirmed,
                   noise_left, fail_left>>
    /\ UNCHANGED nonGenVars

\* lines 341-343: bot.stop() for every handle (kill and wait, always Ok)
StopBots ==
    /\ gen_pc = "stop_bots"
    /\ bots' = [i \in DOMAIN bots |-> "stopped"]
    /\ gen_pc' = "kill"
    /\ UNCHANGED <<chunk_list, max_bot_count, quad_chunks, unflushed,
                   gen_result, child,
                   reaped, stdin, srv_done, srv_ready, lines, spawn_calls, batch,
                   k, success_count, failure_count, ready_seen, confirmed,
                   noise_left, fail_left>>
    /\ UNCHANGED nonGenVars

\* line 345: child.kill()
KillChild ==
    /\ gen_pc = "kill"
    /\ child' = IF child = "running" THEN "killed" ELSE child
    /\ gen_pc' = "wait"
    /\ UNCHANGED <<chunk_list, max_bot_count, quad_chunks, unflushed,
                   gen_result, reaped,
                   stdin, srv_done, srv_ready, lines, bots, spawn_calls, batch, k,
                   success_count, failure_count, ready_seen, confirmed,
                   noise_left, fail_left>>
    /\ UNCHANGED nonGenVars

\* lines 346-350: child.wait(), thread.join(), Ok(())
WaitChild ==
    /\ gen_pc = "wait"
    /\ reaped' = TRUE
    /\ gen_pc' = "done"
    /\ gen_result' = "Ok"
    /\ UNCHANGED <<chunk_list, max_bot_count, quad_chunks, unflushed,
                   child, stdin,
                   srv_done, srv_ready, lines, bots, spawn_calls, batch, k,
                   success_count, failure_count, ready_seen, confirmed,
                   noise_left, fail_left>>
    /\ UNCHANGED nonGenVars

(***************************************************************************)
(* The server process, as seen through its pipes.                           *)
(***************************************************************************)
ServerLive == child = "running" /\ gen_pc # "done"

\* the server finishes starting and prints `... For help, type "help"`
ServerReady ==
    /\ ServerLive
    /\ ~srv_ready
    /\ srv_ready' = TRUE
    /\ lines' = Append(lines, OutLine("ready", 0, 0))
    /\ UNCHANGED <<chunk_list, max_bot_count, quad_chunks, unflushed,
                   gen_pc, gen_result,
                   child, reaped, stdin, srv_done, bots, spawn_calls, batch, k,
                   success_count, failure_count, ready_seen, confirmed,
                   noise_left, fail_left>>
    /\ UNCHANGED nonGenVars

\* any other log line
ServerLog ==
    /\ ServerLive
    /\ noise_left > 0
    /\ noise_left' = noise_left - 1
    /\ lines' = Append(lines, OutLine("other", 0, 0))
    /\ UNCHANGED <<chunk_list, max_bot_count, quad_chunks, unflushed,
                   gen_pc, gen_result,
                   child, reaped, stdin, srv_done, srv_ready, bots, spawn_calls,
                   batch, k, success_count, failure_count, ready_seen, confirmed,
                   fail_left>>
    /\ UNCHANGED nonGenVars

\* the server executes its next console command and prints the answer: a clone
\* probe answers "Successfully cloned 4 blocks" or "That position is not loaded"
ServerExecute ==
    /\ ServerLive
    /\ srv_ready
    /\ srv_done < Len(stdin)
    /\ srv_done' = srv_done + 1
    /\ LET cmd == stdin[srv_done + 1]
       IN IF cmd[1] = "clone"
          THEN \/ /\ lines' = Append(lines, OutLine("cloned", cmd[3], cmd[4]))
                  /\ UNCHANGED fail_left
               \/ /\ fail_left > 0
                  /\ fail_left' = fail_left - 1
                  /\ lines' = Append(lines, OutLine("not_loaded", cmd[3], cmd[4]))
          ELSE /\ lines' = Append(lines, OutLine("other", 0, 0))
               /\ UNCHANGED fail_left
    /\ UNCHANGED <<chunk_list, max_bot_count, quad_chunks, unflushed,
                   gen_pc, gen_result,
                   child, reaped, stdin, srv_ready, bots, spawn_calls, batch, k,
                   success_count, failure_count, ready_seen, confirmed,
                   noise_left>>
    /\ UNCHANGED nonGenVars

\* the server process ends by itself (a crash, a failed start)
ServerExit ==
    /\ ServerLive
    /\ child' = "exited"
    /\ UNCHANGED <<chunk_list, max_bot_count, quad_chunks, unflushed,
                   gen_pc, gen_result,
                   reaped, stdin, srv_done, srv_ready, lines, bots, spawn_calls,
                   batch, k, success_count, failure_count, ready_seen, confirmed,
                   noise_left, fail_left>>
    /\ UNCHANGED nonGenVars

GenProgram ==
    \/ Stage \/ Launch \/ AwaitReady \/ SpawnBot \/ WriteTp \/ WriteProbe
    \/ ReadReply \/ SaveAll \/ StopBots \/ KillChild \/ WaitChild

GenServer == ServerReady \/ ServerLog \/ ServerExecute \/ ServerExit

GenNext == GenProgram \/ GenServer

\* no Chunk is being read
ChunkIdle ==
    /\ sections_len = 0
    /\ chunk_result = <<>>

\* no directory is being listed
ListIdle ==
    /\ dir_exists = FALSE
    /\ dir_files = {}
    /\ listed = <<>>

\* no file name is being parsed
NameIdle ==
    /\ file_name = <<>>
    /\ parsed = <<>>
    /\ parsed_bin = <<>>

\* Dir::new() (file_trie.rs:106-108): a directory without entries
EmptyDir == [n \in {} |-> 0]

\* no Dir is being built
TreeIdle ==
    /\ tree = EmptyDir
    /\ tree_prev = EmptyDir
    /\ tree_op = <<>>
    /\ tree_ops = 0

\* nothing on the disk
EmptyDisk == [files |-> [q \in {} |-> 0], dirs |-> {}]

\* no Dir is being mounted
MountIdle ==
    /\ fs_handler = "default"
    /\ mount_tree = EmptyDir
    /\ disk = EmptyDisk
    /\ mount_pc = "start"
    /\ loaded = <<>>

\* none of the ssmc-core subsystems is active
\* no FileBundle is being written
BundleIdle ==
    /\ wc_bundle = {}
    /\ max_concurrency = 1
    /\ wc_pc = "dirs"
    /\ wc_created = <<>>
    /\ wc_started = <<>>
    /\ wc_results = <<>>
    /\ wc_result = "none"

LateIdle == TreeIdle /\ MountIdle /\ BundleIdle

\* no path string is being read
SegIdle ==
    /\ raw_path = <<>>
    /\ seg_virtual = <<>>
    /\ seg_put = <<>>
    /\ seg_tree = EmptyDir
    /\ seg_disk = <<>>

\* the runtime cache is empty and ready_runtime was never called
RtIdle ==
    /\ rt_disk = {}
    /\ rt_log = <<>>

\* no resolver and no server executor is active
\* ready_server is not called
VsIdle ==
    /\ vs_world = EmptyDir
    /\ vs_request = <<>>
    /\ vs_result = <<>>

\* MockServerExecutor::new() (server_executor.rs:115-123)
MockNew ==
    [is_running |-> FALSE, commands_sent |-> <<>>, should_fail_start |-> FALSE,
     should_fail_stop |-> FALSE, should_fail_command |-> FALSE]

\* ChildProcessServerExecutor::new() (server_executor.rs:24-29)
ChildNew == [child |-> FALSE, stdin |-> FALSE, piped |-> <<>>]

\* no call is made on the executors
ExIdle ==
    /\ ex_mock = MockNew
    /\ ex_child = ChildNew
    /\ ex_calls = <<>>

\* the handle spawn_bot returned is in use and the stderr thread is reading
AfterIdle ==
    /\ handle_end = "none"
    /\ err_reader_exited = FALSE

RestIdle == RtIdle /\ VsIdle /\ ExIdle /\ AfterIdle

MoreIdle == SegIdle /\ RestIdle

\* none of the later subsystems is active
ExtraIdle == ChunkIdle /\ ListIdle /\ NameIdle /\ LateIdle /\ MoreIdle

\* no Blockstates is being read
BlocksIdle ==
    /\ palette_len = 1
    /\ has_data = FALSE
    /\ bits_per_block = <<>>
    /\ block_result = <<>>

\* no Region is open
RegionIdle ==
    /\ reg_pos = [x |-> 0, z |-> 0]
    /\ raw = <<>>
    /\ saved = <<>>
    /\ save_calls = 0
    /\ load_result = <<>>

\* no ChunkPos method is being called
PosIdle ==
    /\ chunk_pos = [x |-> 0, z |-> 0]
    /\ region_of = <<>>
    /\ offset_of = <<>>
    /\ region_coords = <<>>

\* no bot handle exists
HandlesIdle ==
    /\ platform = "unix"
    /\ handles = <<>>

\* no server.properties is being staged
PropsIdle ==
    /\ props = <<>>
    /\ props_orig = <<>>
    /\ props_prev = <<>>
    /\ ports = <<>>

\* spawn_bot is not running
BotIdle ==
    /\ by_new = FALSE
    /\ max_retries = 0
    /\ bot_pc = "idle"
    /\ retry_count = 0
    /\ started = 0
    /\ emitted = <<>>
    /\ pipe = <<>>
    /\ proc_open = FALSE
    /\ bot_result = "none"
    /\ attempts = 0
    /\ owner = 0
    /\ reader = "none"
    /\ chunk_rx = <<>>
    /\ rx_alive = TRUE
    /\ lines_left = 0
    /\ leaked = 0

InitGen ==
    GenInit /\ BotIdle /\ PropsIdle /\ HandlesIdle /\ PosIdle /\ RegionIdle
    /\ BlocksIdle /\ ExtraIdle

SpecGen == InitGen /\ [][GenNext]_vars

\* the orchestrator's thread always runs; the server owes no reply
FairSpecGen == SpecGen /\ WF_vars(GenProgram)


(***************************************************************************)
(* Properties of generate_chunks.                                          *)
(***************************************************************************)
HasTp == \E i \in DOMAIN stdin : stdin[i][1] = "tp"

LastCommand == IF stdin = <<>> THEN "none" ELSE stdin[Len(stdin)][1]

\* C1: generate_chunks returns Ok only if every requested chunk was covered by
\* a successful clone probe whose reply was read before the return.
C1_OkOnlyIfAllObserved ==
    gen_result = "Ok" => chunk_list \subseteq confirmed

\* an Ok run over two batches in which one probe first answered "not loaded"
C1_Witness ==
    /\ gen_result = "Ok"
    /\ Cardinality(chunk_list) = 2
    /\ NumBatches = 2
    /\ fail_left = 0

\* C2: whenever generate_chunks has returned after spawning the server, the
\* server is no longer running, its child has been reaped and no spawned bot
\* is still running.
C2_TeardownAlwaysRuns ==
    (gen_pc = "done" /\ child # "none") =>
        /\ child \in {"exited", "killed"}
        /\ reaped
        /\ \A i \in DOMAIN bots : bots[i] # "running"

C4_ReadinessGatesScheduling ==
    (spawn_calls > 0 \/ HasTp) => ready_seen

\* the place of a requested chunk's quad chunk in the iteration order
QuadIndex(c) == CHOOSE i \in DOMAIN quad_chunks : quad_chunks[i] = from_chunk(c)

\* The requested chunks the batch loop (lines 266-328) has not yet left behind:
\* those whose quad chunk lies in the current batch or in a later one.  A batch
\* is left only when every probe of it answered "Successfully cloned".
Pending == {c \in chunk_list : QuadIndex(c) > (batch - 1) * max_bot_count}

\* C11: the set of requested chunks not yet confirmed loaded never grows: no
\* step of a run adds a chunk to it, so a chunk leaves it at most once.
C11_PendingNeverGrows == [][Pending' \subseteq Pending]_vars

\* the first of two batches has been left: its chunk is gone, the other remains
C11_Witness ==
    /\ gen_pc = "tp"
    /\ batch = 2
    /\ Pending # {}
    /\ Pending # chunk_list
    /\ chunk_list \ Pending \subseteq confirmed

\* the tp lines written so far
TpLines == {stdin[i] : i \in {j \in DOMAIN stdin : stdin[j][1] = "tp"}}

PastWrites == gen_pc \in {"read", "stop_bots", "kill", "wait"} \/ gen_result = "Ok"

\* C13: the server stdin has received only complete command lines, and every
\* line written is followed by a flush: whenever generate_chunks has gone on
\* from its writes to waiting, sleeping or teardown, no written line is still
\* unflushed.
C13_WholeLinesFlushed ==
    /\ \A i \in DOMAIN stdin : stdin[i][1] \in {"tp", "clone", "save-all"}
    /\ PastWrites => unflushed = 0

\* C10: a wait for completion signals always ends: the scheduler eventually
\* leaves the reply loop and goes on to its next command.
C10_WaitIsBounded == (gen_pc = "read") ~> (gen_pc # "read")


(***************************************************************************)
(* spawn_bot (bot_spawner.rs:69-188) and the event-reader thread.           *)
(***************************************************************************)
MaxRetriesCfg == 1     \* largest max_retries given to with_retry_config
MaxLines == 5          \* stdout lines written by all subprocesses of one call
DefaultMaxRetries == 3 \* AzaleaBotSpawner::new

\* generate_chunks is not running
GenIdleCall ==
    /\ chunk_list = {}
    /\ quad_chunks = <<>>
    /\ gen_pc = "idle"
    /\ gen_result = "none"
    /\ child = "none"
    /\ reaped = FALSE
    /\ stdin = <<>>
    /\ srv_done = 0
    /\ srv_ready = FALSE
    /\ lines = <<>>
    /\ bots = <<>>
    /\ spawn_calls = 0
    /\ batch = 1
    /\ k = 1
    /\ success_count = 0
    /\ failure_count = 0
    /\ ready_seen = FALSE
    /\ confirmed = {}
    /\ noise_left = 0
    /\ fail_left = 0
    /\ unflushed = 0

GenIdle == GenIdleCall /\ max_bot_count = 1

\* One JSON line of the bot's stdout, by its `type`; "unknown" is a well-formed
\* object whose type is none of spawn, disconnect, chunk.
EventLine(type, x, z) == [type |-> type, x |-> x, z |-> z]

BotLines ==
    {EventLine("spawn", 0, 0), EventLine("disconnect", 0, 0),
     EventLine("unknown", 0, 0), EventLine("chunk", 0, 0), EventLine("chunk", 1, 0)}

\* serde_json::from_str::<BotEvent> (lines 56-65): only the three tags parse
Parses(line) == line.type \in {"spawn", "disconnect", "chunk"}

\* the retry test taken one step too far
RetryAllowedInclusive(count, max) == count <= max

\* line 146: `retry_count < self.max_retries`
RetryAllowed(count, max) == count < max

\* the reader thread leaving its loop on a Spawn as well
ReaderStopsOnSpawnToo(line) == line.type \in {"disconnect", "spawn"}

\* lines 170-173: the reader thread breaks on Disconnect
ReaderStops(line) == line.type = "disconnect"

\* AzaleaBotSpawner::new (lines 39-45) or ::with_retry_config (lines 47-53),
\* then spawn_bot is entered
BotInit ==
    /\ \/ by_new = TRUE /\ max_retries = DefaultMaxRetries
       \/ by_new = FALSE /\ max_retries \in 0..MaxRetriesCfg
    /\ bot_pc = "start"
    /\ retry_count = 0
    /\ started = 0
    /\ emitted = <<>>
    /\ pipe = <<>>
    /\ proc_open = FALSE
    /\ bot_result = "none"
    /\ attempts = 0
    /\ owner = 0
    /\ reader = "none"
    /\ chunk_rx = <<>>
    /\ rx_alive = TRUE
    /\ lines_left = MaxLines
    /\ leaked = 0

\* `return Err(...)` or a `?` out of spawn_bot
BotReturn(res, n) ==
    /\ bot_pc' = "returned"
    /\ bot_result' = res
    /\ attempts' = n

\* lines 79-117: the top of the loop: (download and) start a subprocess, make a
\* fresh channel, take the pipes; every `?` here returns the error
StartProcess ==
    /\ bot_pc = "start"
    /\ \/ /\ started' = started + 1
          /\ emitted' = Append(emitted, <<>>)
          /\ pipe' = <<>>
          /\ proc_open' = TRUE
          /\ chunk_rx' = <<>>
          /\ bot_pc' = "login"
          /\ leaked' = IF proc_open THEN leaked + 1 ELSE leaked
          /\ UNCHANGED <<bot_result, attempts>>
       \/ /\ BotReturn("SpawnError", 0)
          /\ UNCHANGED <<started, emitted, pipe, proc_open, chunk_rx, leaked>>
    /\ UNCHANGED <<by_new, max_retries, retry_count, owner, reader, rx_alive,
                   lines_left>>
    /\ UNCHANGED nonBotVars

\* lines 123-154: one turn of the login loop, and what follows when it ends
LoginRead ==
    /\ bot_pc = "login"
    /\ \/ /\ pipe # <<>>
          /\ pipe' = Tail(pipe)
          /\ LET line == Head(pipe)
             IN IF ~Parses(line)
                THEN \* line 124: serde_json::from_str(&line)?
                     /\ BotReturn("ParseError", 0)
                     /\ UNCHANGED <<retry_count, owner, reader, chunk_rx>>
                ELSE IF line.type = "chunk"
                THEN /\ chunk_rx' = Append(chunk_rx, <<line.x, line.z>>)
                     /\ UNCHANGED <<bot_pc, bot_result, attempts, retry_count,
                                    owner, reader>>
                ELSE IF line.type = "spawn"
                THEN \* logged in: lines 142-187
                     /\ BotReturn("Ok", 0)
                     /\ owner' = started
                     /\ reader' = "running"
                     /\ UNCHANGED <<retry_count, chunk_rx>>
                ELSE \* disconnect: lines 146-153
                     IF RetryAllowed(retry_count, max_retries)
                     THEN /\ retry_count' = retry_count + 1
                          /\ bot_pc' = "start"
                          /\ UNCHANGED <<bot_result, attempts, owner, reader,
                                         chunk_rx>>
                     ELSE /\ BotReturn("LoginFailed", retry_count + 1)
                          /\ UNCHANGED <<retry_count, owner, reader, chunk_rx>>
       \/ \* end of stream with neither flag set: line 153
          /\ pipe = <<>>
          /\ ~proc_open
          /\ BotReturn("LoginFailed", retry_count + 1)
          /\ UNCHANGED <<pipe, retry_count, owner, reader, chunk_rx>>
    /\ UNCHANGED <<by_new, leaked, max_retries, started, emitted, proc_open, rx_alive,
                   lines_left>>
    /\ UNCHANGED nonBotVars

\* lines 160-180: one turn of the reader thread's loop
ReaderRead ==
    /\ reader = "running"
    /\ \/ /\ pipe # <<>>
          /\ pipe' = Tail(pipe)
          /\ LET line == Head(pipe)
             IN IF ~Parses(line)
                THEN UNCHANGED <<reader, chunk_rx>>
                ELSE IF line.type = "chunk"
                THEN IF rx_alive
                     THEN /\ chunk_rx' = Append(chunk_rx, <<line.x, line.z>>)
                          /\ UNCHANGED reader
                     ELSE /\ reader' = "exited"
                          /\ UNCHANGED chunk_rx
                ELSE IF ReaderStops(line)
                THEN reader' = "exited" /\ UNCHANGED chunk_rx
                ELSE UNCHANGED <<reader, chunk_rx>>
       \/ /\ pipe = <<>>
          /\ ~proc_open
          /\ reader' = "exited"
          /\ UNCHANGED <<pipe, chunk_rx>>
    /\ UNCHANGED <<by_new, leaked, max_retries, bot_pc, retry_count, started, emitted,
                   proc_open, bot_result, attempts, owner, lines_left, rx_alive>>
    /\ UNCHANGED nonBotVars

\* the caller drops the receiver it was given
DropReceiver ==
    /\ bot_result = "Ok"
    /\ rx_alive
    /\ rx_alive' = FALSE
    /\ UNCHANGED <<by_new, leaked, max_retries, bot_pc, retry_count, started, emitted,
                   pipe, proc_open, bot_result, attempts, owner, reader,
                   chunk_rx, lines_left>>
    /\ UNCHANGED nonBotVars

\* somebody still reads the current subprocess's stdout
BeingRead == bot_pc = "login" \/ reader = "running"

\* the current subprocess writes one line to its stdout
BotEmit ==
    /\ BeingRead
    /\ proc_open
    /\ lines_left > 0
    /\ \E line \in BotLines :
          /\ emitted' = [emitted EXCEPT ![started] = Append(@, line)]
          /\ pipe' = Append(pipe, line)
    /\ lines_left' = lines_left - 1
    /\ UNCHANGED <<by_new, leaked, max_retries, bot_pc, retry_count, started, proc_open,
                   bot_result, attempts, owner, reader, chunk_rx, rx_alive>>
    /\ UNCHANGED nonBotVars

\* the current subprocess ends, which closes its stdout
BotExit ==
    /\ BeingRead
    /\ proc_open
    /\ proc_open' = FALSE
    /\ UNCHANGED <<by_new, leaked, max_retries, bot_pc, retry_count, started, emitted,
                   pipe, bot_result, attempts, owner, reader, chunk_rx, rx_alive,
                   lines_left>>
    /\ UNCHANGED nonBotVars

\* a subprocess that spawn_bot left running ends by itself; its stderr thread
\* (lines 110-114) reaches the end of the stream
LeakedExit ==
    /\ leaked > 0
    /\ leaked' = leaked - 1
    /\ UNCHANGED <<by_new, max_retries, bot_pc, retry_count, started, emitted,
                   pipe, proc_open, bot_result, attempts, owner, reader,
                   chunk_rx, rx_alive, lines_left>>
    /\ UNCHANGED nonBotVars

BotNext ==
    \/ StartProcess \/ LoginRead \/ ReaderRead \/ DropReceiver
    \/ BotEmit \/ BotExit

InitBot ==
    BotInit /\ GenIdle /\ PropsIdle /\ HandlesIdle /\ PosIdle /\ RegionIdle
    /\ BlocksIdle /\ ExtraIdle

SpecBot == InitBot /\ [][BotNext]_vars


(***************************************************************************)
(* Properties of spawn_bot.                                                 *)
(***************************************************************************)
\* the first Spawn or Disconnect of a stream: "spawn", "disconnect" or "none"
FirstTerminal(s) ==
    LET I == {i \in DOMAIN s : s[i].type \in {"spawn", "disconnect"}}
    IN IF I = {} THEN "none"
       ELSE s[CHOOSE i \in I : \A j \in I : i <= j].type

\* the lines of the current subprocess that have been read
Consumed == SubSeq(emitted[started], 1, Len(emitted[started]) - Len(pipe))

RECURSIVE ChunkPairs(_)
ChunkPairs(s) ==
    IF s = <<>> THEN <<>>
    ELSE (IF Head(s).type = "chunk" THEN <<<<Head(s).x, Head(s).z>>>> ELSE <<>>)
         \o ChunkPairs(Tail(s))

\* a stream up to and including its first Disconnect that follows its first Spawn
UpToPostLoginDisconnect(s) ==
    LET S == {i \in DOMAIN s : s[i].type = "spawn"}
        D == {i \in DOMAIN s : s[i].type = "disconnect" /\ \E j \in S : j < i}
    IN IF D = {} THEN s
       ELSE SubSeq(s, 1, CHOOSE i \in D : \A j \in D : i <= j)

\* C5: if the first N-1 subprocesses each emit Disconnect before any Spawn, the
\* N-th emits Spawn (before any Disconnect) and max_retries >= N-1, then
\* spawn_bot returns Ok having started exactly N subprocesses, the handle
\* owning the N-th.
C5_LoginAfterDisconnects ==
    \A n \in 1..started :
        ( /\ bot_pc = "returned"
          /\ max_retries >= n - 1
          /\ \A i \in 1..(n - 1) : FirstTerminal(emitted[i]) = "disconnect"
          /\ FirstTerminal(emitted[n]) = "spawn" )
        => (bot_result = "Ok" /\ started = n /\ owner = n)

\* C6: if max_retries+1 subprocesses each emit Disconnect before any Spawn,
\* spawn_bot returns the login error reporting max_retries+1 attempts; it never
\* starts more than max_retries+1 subprocesses.
C6_LoginFailsAfterRetries ==
    /\ started <= max_retries + 1
    /\ ( /\ bot_pc = "returned"
         /\ started = max_retries + 1
         /\ \A i \in 1..started : FirstTerminal(emitted[i]) = "disconnect" )
       => (bot_result = "LoginFailed" /\ attempts = max_retries + 1)

\* C7 as stated: a spawner built by new starts at most 3 subprocesses per call.
C7_DefaultThreeAttempts == by_new => started <= 3

\* C7 as the code has it: a spawner built by new allows 3 retries, so one call
\* starts at most 4 subprocesses, and a login error reports at most 4 attempts.
C7_DefaultFourAttempts ==
    by_new => (started <= DefaultMaxRetries + 1 /\ attempts <= DefaultMaxRetries + 1)

\* the default spawner gives up after its fourth subprocess disconnected
C7_Witness ==
    by_new /\ started = 4 /\ bot_result = "LoginFailed" /\ attempts = 4

\* C8: while the stream goes on, a line of unknown type that has been read
\* leaves its reader going: the login loop still waits, or spawn_bot has
\* returned Ok and the reader thread still runs.
C8_UnknownIgnored ==
    ( /\ started > 0
      /\ Consumed # <<>>
      /\ Consumed[Len(Consumed)].type = "unknown" )
    => (bot_pc = "login" \/ (bot_result = "Ok" /\ reader # "none"))

\* C9: after a successful login and while the receiver lives, the pairs sent
\* on the channel are exactly the Chunk events read so far from the logged-in
\* subprocess, in order; once the reader has ended they are all the Chunk
\* events that subprocess emitted up to its first post-login Disconnect.  With
\* the receiver dropped, the reader does not outlive the next Chunk event.
C9_ChunkForwarding ==
    bot_result = "Ok" =>
        /\ owner = started
        /\ rx_alive =>
              /\ chunk_rx = ChunkPairs(Consumed)
              /\ reader = "exited" =>
                    chunk_rx = ChunkPairs(UpToPostLoginDisconnect(emitted[owner]))
        /\ (~rx_alive /\ reader = "running") => chunk_rx = ChunkPairs(Consumed)

\* a retry, then chunks before the Spawn and after it, delivered in order
C9_Witness ==
    /\ bot_result = "Ok"
    /\ rx_alive
    /\ started = 2
    /\ reader = "exited"
    /\ chunk_rx = <<<<1, 0>>, <<0, 0>>>>
    /\ emitted[2][1].type = "chunk"
    /\ emitted[2][2].type = "spawn"


(***************************************************************************)
(* Staging of server.properties (chunk_generator.rs:199-222): the map read  *)
(* by java_properties::read, or an empty map when the tree has no such      *)
(* file, gets five entries inserted and is written back.                    *)
(***************************************************************************)
MaxStagings == 2       \* how often a tree goes through the staging

Ports == {25565, 25566}

Absent == "<absent>"

PropKeys == {"online-mode", "max-players", "server-port", "gamemode",
             "allow-flight", "view-distance", "motd"}

\* the maps a tree may hold: every key either missing or with some old value
PropMaps == [PropKeys -> {Absent, "old"}]

\* the insertions with a view-distance entry added to them
overlay_with_view_distance(p, bot_count, port) ==
    [key \in PropKeys |->
        CASE key = "online-mode" -> "false"
          [] key = "max-players" -> ToString(bot_count)
          [] key = "server-port" -> ToString(port)
          [] key = "gamemode" -> "creative"
          [] key = "allow-flight" -> "true"
          [] key = "view-distance" -> "10"
          [] OTHER -> p[key]]

\* lines 211-215: the five props.insert calls
overlay(p, bot_count, port) ==
    [key \in PropKeys |->
        CASE key = "online-mode" -> "false"
          [] key = "max-players" -> ToString(bot_count)
          [] key = "server-port" -> ToString(port)
          [] key = "gamemode" -> "creative"
          [] key = "allow-flight" -> "true"
          [] OTHER -> p[key]]

\* the tree as generate_chunks receives it; a tree without the file gives the
\* map with every key Absent
PropsInit ==
    /\ props \in PropMaps
    /\ props_orig = props
    /\ props_prev = props
    /\ ports = <<>>
    /\ max_bot_count \in 1..MaxBots

\* lines 199-222: find_free_port, read (or HashMap::new), insert, write back
StageProperties ==
    /\ Len(ports) < MaxStagings
    /\ \E port \in Ports :
          /\ ports' = Append(ports, port)
          /\ props' = overlay(props, max_bot_count, port)
    /\ props_prev' = props
    /\ UNCHANGED props_orig
    /\ UNCHANGED <<genVars, botVars, handleVars, posVars, regionVars, blockVars,
                   extraVars>>

PropsNext == StageProperties

InitProps ==
    PropsInit /\ GenIdleCall /\ BotIdle /\ HandlesIdle /\ PosIdle /\ RegionIdle
    /\ BlocksIdle /\ ExtraIdle

SpecProps == InitProps /\ [][PropsNext]_vars

\* C14 as stated: the staged map has the overlay's entries, the view-distance
\* entry among them.
C14_OverlayWithViewDistance ==
    ports # <<>> =>
        /\ props["online-mode"] = "false"
        /\ props["server-port"] = ToString(ports[Len(ports)])
        /\ props["gamemode"] = "creative"
        /\ props["allow-flight"] = "true"
        /\ props["view-distance"] # Absent

\* C14 as the code has it: the staged map is the pre-existing map overridden at
\* exactly online-mode=false, max-players=bot count, server-port=chosen port,
\* gamemode=creative, allow-flight=true; every other key, view-distance
\* included, keeps its previous value or stays missing; a second staging with
\* the same port changes nothing.
C14_OverlayFiveKeys ==
    ports # <<>> =>
        /\ props["online-mode"] = "false"
        /\ props["max-players"] = ToString(max_bot_count)
        /\ props["server-port"] = ToString(ports[Len(ports)])
        /\ props["gamemode"] = "creative"
        /\ props["allow-flight"] = "true"
        /\ \A key \in {"view-distance", "motd"} : props[key] = props_orig[key]
        /\ (Len(ports) = 2 /\ ports[1] = ports[2]) => props = props_prev

\* a tree without view-distance but with its own motd and port, staged twice
\* with the same port for two bots
C14_Witness ==
    /\ Len(ports) = 2
    /\ ports[1] = ports[2]
    /\ max_bot_count = 2
    /\ props_orig["view-distance"] = Absent
    /\ props_orig["motd"] = "old"
    /\ props_orig["server-port"] = "old"
    /\ props["max-players"] = "2"
    /\ props["server-port"] = "25565"


(***************************************************************************)
(* AzaleaBotHandle (bot_spawner.rs:190-229): stop and Drop.  A handle owns   *)
(* a std::process::Child that nobody else waits for.                         *)
(*   process  "running", "exited" (ended by itself) or "killed"              *)
(*   waited   Child::wait has returned for it                                *)
(*   handle   "live", "stopped" (stop returned) or "dropped"                 *)
(*   result   what stop returned: "none", "Ok" or "Err"                      *)
(*   kills    how many times Child::kill was called                          *)
(*   kill_err a call of Child::kill returned an error                        *)
(***************************************************************************)
MaxHandles == 2        \* handles alive at once

Platforms == {"unix", "windows"}

NewHandle == [process |-> "running", waited |-> FALSE, handle |-> "live",
              result |-> "none", kills |-> 0, kill_err |-> FALSE]

\* What Child::kill may return.  A running child is signalled.  On unix a
\* child that ended and was not waited for is still signalled with success;
\* once it was waited for, and on windows once it has ended, the standard
\* library returns Ok or an error depending on its version.
KillResults(plat, h) ==
    IF h.process = "running" THEN {"Ok"}
    ELSE IF plat = "unix" /\ ~h.waited THEN {"Ok"}
    ELSE {"Ok", "Err"}

\* the child after a kill: a running child is ended by it
Killed(h) == IF h.process = "running" THEN "killed" ELSE h.process

\* the error of kill handed on to the caller of stop
stop_propagates_kill_error == "Err"

\* lines 202-205: `if let Err(_) = self.process.kill() { return Ok(()) }`
stop_on_kill_error == "Ok"

HandleInit ==
    /\ platform \in Platforms
    /\ handles = [i \in 1..MaxHandles |-> NewHandle]

\* the bot process ends by itself
ProcessExit(i) ==
    /\ handles[i].process = "running"
    /\ handles' = [handles EXCEPT ![i].process = "exited"]
    /\ UNCHANGED platform
    /\ UNCHANGED <<genVars, botVars, propsVars, posVars, regionVars, blockVars,
                   extraVars>>

\* lines 200-219, then Drop (lines 222-229) as the Box<Self> goes out of scope:
\* kill; on its error return Ok; else wait, whose error is only printed; the
\* destructor then calls kill once more and prints its error
HandleStop(i) ==
    /\ handles[i].handle = "live"
    /\ \E r1 \in KillResults(platform, handles[i]) :
          LET h1 == [handles[i] EXCEPT !.process = Killed(handles[i]),
                                       !.kills = @ + 1,
                                       !.kill_err = (r1 = "Err")]
              h2 == IF r1 = "Err"
                    THEN [h1 EXCEPT !.result = stop_on_kill_error]
                    ELSE [h1 EXCEPT !.waited = TRUE, !.result = "Ok"]
          IN \E r2 \in KillResults(platform, h2) :
                handles' = [handles EXCEPT ![i] =
                               [h2 EXCEPT !.handle = "stopped",
                                          !.kills = @ + 1,
                                          !.kill_err = @ \/ (r2 = "Err")]]
    /\ UNCHANGED platform
    /\ UNCHANGED <<genVars, botVars, propsVars, posVars, regionVars, blockVars,
                   extraVars>>

\* lines 222-229: the handle is dropped without stop: kill, error only printed
HandleDrop(i) ==
    /\ handles[i].handle = "live"
    /\ \E r \in KillResults(platform, handles[i]) :
          handles' = [handles EXCEPT ![i] =
                         [@ EXCEPT !.process = Killed(handles[i]),
                                   !.handle = "dropped",
                                   !.kills = @ + 1,
                                   !.kill_err = (r = "Err")]]
    /\ UNCHANGED platform
    /\ UNCHANGED <<genVars, botVars, propsVars, posVars, regionVars, blockVars,
                   extraVars>>

HandleNext ==
    \E i \in 1..MaxHandles : ProcessExit(i) \/ HandleStop(i) \/ HandleDrop(i)

InitHandle ==
    HandleInit /\ GenIdle /\ BotIdle /\ PropsIdle /\ PosIdle /\ RegionIdle
    /\ BlocksIdle /\ ExtraIdle

SpecHandle == InitHandle /\ [][HandleNext]_vars

\* C15: stop sends kill and returns Ok whether the child was running or had
\* ended, after which the child is not running and, where kill succeeded (on
\* unix always), has been waited for; a handle dropped without stop has sent
\* kill too and its child is not running; no error of kill ever becomes the
\* result of stop.
C15_StopAndDropTerminate ==
    \A i \in DOMAIN handles :
        /\ handles[i].result # "Err"
        /\ handles[i].handle = "stopped" =>
              /\ handles[i].result = "Ok"
              /\ handles[i].kills >= 1
              /\ handles[i].process # "running"
              /\ (platform = "unix" \/ ~handles[i].kill_err) => handles[i].waited
        /\ handles[i].handle = "dropped" =>
              /\ handles[i].kills >= 1
              /\ handles[i].process # "running"

\* one handle stopped after its child had ended, with a kill error swallowed,
\* and one dropped while its child was running
C15_Witness ==
    /\ handles[1].handle = "stopped"
    /\ handles[1].process = "exited"
    /\ handles[1].kill_err
    /\ handles[1].result = "Ok"
    /\ handles[2].handle = "dropped"
    /\ handles[2].process = "killed"


(***************************************************************************)
(* ChunkPos::region and ChunkPos::region_offset (region_loader.rs:148-156)  *)
(* and AnvilRegionHandler::chunk_to_region_coords (bin                      *)
(* region_handler.rs:45-48), as pure functions of a chunk position.         *)
(***************************************************************************)
MaxCoord == 33         \* chunk coordinates range over -MaxCoord..MaxCoord

Coords == (0 - MaxCoord)..MaxCoord

\* `/` on isize: the quotient rounded toward zero
isize_div(a, b) == IF a >= 0 THEN a \div b ELSE 0 - ((0 - a) \div b)

\* isize::rem_euclid with a positive divisor: the remainder in 0..b-1
rem_euclid(a, b) == a % b

\* `>> 5` on i32: the arithmetic shift, which rounds toward minus infinity
shr5(a) == a \div 32

\* region_loader.rs:148-150
region(c) == [x |-> isize_div(c.x, 32), z |-> isize_div(c.z, 32)]

\* region_loader.rs:151-156: both components are computed from self.x
region_offset(c) == <<rem_euclid(c.x, 32), rem_euclid(c.x, 32)>>

\* bin region_handler.rs:45-48
chunk_to_region_coords(x, z) == [x |-> shr5(x), z |-> shr5(z)]

PosInit ==
    /\ chunk_pos \in [x : Coords, z : Coords]
    /\ region_of = <<>>
    /\ offset_of = <<>>
    /\ region_coords = <<>>

CallRegion ==
    /\ region_of = <<>>
    /\ region_of' = <<region(chunk_pos)>>
    /\ UNCHANGED <<chunk_pos, offset_of, region_coords>>
    /\ UNCHANGED <<genVars, botVars, propsVars, handleVars, regionVars, blockVars,
                   extraVars>>

CallRegionOffset ==
    /\ offset_of = <<>>
    /\ offset_of' = <<region_offset(chunk_pos)>>
    /\ UNCHANGED <<chunk_pos, region_of, region_coords>>
    /\ UNCHANGED <<genVars, botVars, propsVars, handleVars, regionVars, blockVars,
                   extraVars>>

CallChunkToRegionCoords ==
    /\ region_coords = <<>>
    /\ region_coords' = <<chunk_to_region_coords(chunk_pos.x, chunk_pos.z)>>
    /\ UNCHANGED <<chunk_pos, region_of, offset_of>>
    /\ UNCHANGED <<genVars, botVars, propsVars, handleVars, regionVars, blockVars,
                   extraVars>>

PosNext == CallRegion \/ CallRegionOffset \/ CallChunkToRegionCoords

InitPos ==
    PosInit /\ GenIdle /\ BotIdle /\ PropsIdle /\ HandlesIdle /\ RegionIdle
    /\ BlocksIdle /\ ExtraIdle

SpecPos == InitPos /\ [][PosNext]_vars

\* the region a chunk position belongs to, by floored division
FloorRegion(c) == [x |-> c.x \div 32, z |-> c.z \div 32]

\* C16: ChunkPos.region maps (x, z) to (floor(x/32), floor(z/32)) for every
\* signed x, z; so (-1,-1) and (-32,-32) are in region (-1,-1), (-33,-33) in
\* (-2,-2), (31,31) in (0,0) and (32,32) in (1,1); chunk_to_region_coords
\* gives the same region.
C16_RegionIsFloor ==
    /\ region_of # <<>> => region_of[1] = FloorRegion(chunk_pos)
    /\ region_coords # <<>> => region_coords[1] = FloorRegion(chunk_pos)
    /\ (region_of # <<>> /\ chunk_pos = [x |-> -1, z |-> -1])
          => region_of[1] = [x |-> -1, z |-> -1]
    /\ (region_of # <<>> /\ chunk_pos = [x |-> -33, z |-> -33])
          => region_of[1] = [x |-> -2, z |-> -2]

\* the chunks next to the one the method was called on
Neighbours(c) ==
    {q \in [x : Coords, z : Coords] :
        (q.x - c.x) \in {-1, 0, 1} /\ (q.z - c.z) \in {-1, 0, 1} /\ q # c}

\* C17: ChunkPos.region_offset returns (x mod 32, z mod 32), both components
\* in 0..31, so a distinct chunk of the same region has a distinct offset.
C17_OffsetIsMod32 ==
    offset_of # <<>> =>
        /\ offset_of[1] = <<chunk_pos.x % 32, chunk_pos.z % 32>>
        /\ offset_of[1][1] \in 0..31 /\ offset_of[1][2] \in 0..31
        /\ \A q \in Neighbours(chunk_pos) :
              FloorRegion(q) = FloorRegion(chunk_pos)
                  => region_offset(q) # offset_of[1]


(***************************************************************************)
(* Region::save_chunk and Region::load_chunk (region_loader.rs:41-72) over  *)
(* a region file that starts empty.  fastanvil keeps one byte string per    *)
(* offset; fastnbt::to_bytes and from_bytes turn a chunk into bytes and     *)
(* back.                                                                    *)
(***************************************************************************)
MaxSaves == 2          \* calls of save_chunk on one Region

RegionCoords == {-1, 0, 1}

RegionChunkPositions == [x : RegionCoords, z : RegionCoords]

RegionPositions == {[x |-> 0, z |-> 0], [x |-> -1, z |-> -1]}

Chunks == {"chunk_a", "chunk_b"}

NoChunk == "none"

\* the offsets the positions above can be stored at
Offsets ==
    {<<rem_euclid(a, 32), rem_euclid(b, 32)>> : a \in RegionCoords, b \in RegionCoords}

to_bytes(chunk) == <<"nbt", chunk>>

from_bytes(bytes) == bytes[2]

\* lines 42-49 and 62-68: the request is refused for a chunk of another region
SameRegion(pos) == region(pos) = reg_pos

RegionInit ==
    /\ reg_pos \in RegionPositions
    /\ raw = [o \in Offsets |-> NoChunk]
    /\ saved = [pos \in RegionChunkPositions |-> NoChunk]
    /\ save_calls = 0
    /\ load_result = <<>>

\* lines 61-72
save_chunk(pos, chunk) ==
    /\ save_calls < MaxSaves
    /\ save_calls' = save_calls + 1
    /\ IF SameRegion(pos)
       THEN /\ raw' = [raw EXCEPT ![region_offset(pos)] = to_bytes(chunk)]
            /\ saved' = [saved EXCEPT ![pos] = chunk]
       ELSE UNCHANGED <<raw, saved>>
    /\ UNCHANGED <<reg_pos, load_result>>
    /\ UNCHANGED <<genVars, botVars, propsVars, handleVars, posVars, blockVars,
                   extraVars>>

\* lines 41-59
load_chunk(pos) ==
    /\ load_result' =
          <<[pos |-> pos,
             res |-> IF ~SameRegion(pos) THEN "Err"
                     ELSE IF raw[region_offset(pos)] = NoChunk THEN NoChunk
                     ELSE from_bytes(raw[region_offset(pos)])]>>
    /\ UNCHANGED <<reg_pos, raw, saved, save_calls>>
    /\ UNCHANGED <<genVars, botVars, propsVars, handleVars, posVars, blockVars,
                   extraVars>>

RegionNext ==
    \/ \E pos \in RegionChunkPositions, chunk \in Chunks : save_chunk(pos, chunk)
    \/ \E pos \in RegionChunkPositions : load_chunk(pos)

InitRegion ==
    RegionInit /\ GenIdle /\ BotIdle /\ PropsIdle /\ HandlesIdle /\ PosIdle
    /\ BlocksIdle /\ ExtraIdle

SpecRegion == InitRegion /\ [][RegionNext]_vars

\* C18: after any sequence of save_chunk calls on a Region, load_chunk(p) for
\* a position p of that region returns the chunk last saved at p, and None if
\* none was saved at p; so a save at one position never changes what is read at
\* another.
C18_RegionRoundTrip ==
    \A i \in DOMAIN load_result :
        FloorRegion(load_result[i].pos) = reg_pos
            => load_result[i].res = saved[load_result[i].pos]


(***************************************************************************)
(* Blockstates::get_block and calculate_bits_per_block                      *)
(* (region_loader.rs:187-229) on a section whose long array, if it has one, *)
(* is filled with zeros.                                                    *)
(***************************************************************************)
MaxPalette == 33       \* largest palette.len() tried

UsizeBits == 64        \* usize::BITS and u64::BITS

SectionSide == 16      \* a section is 16 x 16 x 16 blocks

RECURSIVE BitLength(_)
\* the number of binary digits of n; 0 for n = 0
BitLength(n) == IF n = 0 THEN 0 ELSE 1 + BitLength(n \div 2)

leading_zeros(n) == UsizeBits - BitLength(n)

saturating_sub(a, b) == IF a >= b THEN a - b ELSE 0

\* lines 217-223: the width for a palette of len entries
bits_for_palette(len) ==
    IF len = 0 THEN 0
    ELSE Min(UsizeBits - leading_zeros(saturating_sub(len, 1)), 4)

\* lines 209-228: the cached width if there is one, else the computed one
calculate_bits_per_block ==
    IF bits_per_block # <<>> THEN bits_per_block[1]
    ELSE bits_for_palette(palette_len)

RECURSIVE CeilLog2(_)
\* the least k with 2^k >= n, for n >= 1
CeilLog2(n) == IF n <= 1 THEN 0 ELSE 1 + CeilLog2((n + 1) \div 2)

Max(a, b) == IF a > b THEN a ELSE b

\* the longs a section's array holds in the file format: floor(64 / width)
\* blocks per long, width = max(4, ceil_log2(palette size))
DataLen(len) ==
    LET per_long == UsizeBits \div Max(4, CeilLog2(len))
    IN (SectionSide * SectionSide * SectionSide + per_long - 1) \div per_long

\* data[i] of the zero-filled array
DataAt(i) == 0

RECURSIVE shr(_, _)
\* `v >> n` on a non-negative v
shr(v, n) == IF n = 0 THEN v ELSE shr(v \div 2, n - 1)

BlocksInit ==
    /\ palette_len \in 1..MaxPalette
    /\ has_data \in BOOLEAN
    /\ bits_per_block = <<>>
    /\ block_result = <<>>

\* how a call ended: a panic or the index of the palette entry returned
BlockResult(panic, index) == <<[panic |-> panic, index |-> index]>>

\* lines 188-207, for coordinates within the section: what the call does to
\* the Blockstates and how it ends
blockstates_get_block(x, y, z) ==
    /\ IF has_data
       THEN LET block_index == (y * 16 + z) * 16 + x
                bits == calculate_bits_per_block
            IN /\ bits_per_block' = <<bits>>
               /\ IF bits = 0
                  THEN \* line 196: u64::BITS / bits_per_block
                       block_result' = BlockResult("divide by zero", 0)
                  ELSE LET block_per_long == UsizeBits \div bits
                           data_index == block_index \div block_per_long
                           block_offset == block_index % block_per_long
                       IN IF data_index >= DataLen(palette_len)
                          THEN block_result' =
                                   BlockResult("index out of bounds", 0)
                          ELSE LET pallet_index ==
                                       shr(DataAt(data_index), block_offset * bits)
                                           % (2 ^ bits)
                               IN block_result' =
                                      IF pallet_index >= palette_len
                                      THEN BlockResult("index out of bounds", 0)
                                      ELSE BlockResult("none", pallet_index)
       ELSE /\ block_result' = BlockResult("none", 0)
            /\ UNCHANGED bits_per_block
    /\ UNCHANGED <<palette_len, has_data>>

\* Blockstates::get_block called on its own
get_block(x, y, z) ==
    /\ blockstates_get_block(x, y, z)
    /\ UNCHANGED <<genVars, botVars, propsVars, handleVars, posVars, regionVars,
                   extraVars>>

BlocksNext ==
    \E x \in 0..(SectionSide - 1), y \in 0..(SectionSide - 1),
       z \in 0..(SectionSide - 1) : get_block(x, y, z)

InitBlocks ==
    BlocksInit /\ GenIdle /\ BotIdle /\ PropsIdle /\ HandlesIdle /\ PosIdle
    /\ RegionIdle /\ ExtraIdle

SpecBlocks == InitBlocks /\ [][BlocksNext]_vars

\* C19: for a palette of size p >= 1 the width computed by
\* calculate_bits_per_block is max(4, ceil_log2(p)).
C19_BitsIsMaxOfFourAndLog ==
    \A i \in DOMAIN bits_per_block :
        bits_per_block[i] = Max(4, CeilLog2(palette_len))

\* C20: get_block on a zero-filled long array returns palette[0] for every
\* palette size p >= 1 and every 0 <= x, y, z < 16, without a division by zero
\* and without an index out of range.
C20_ZeroDataYieldsFirstEntry ==
    \A i \in DOMAIN block_result :
        block_result[i].panic = "none" /\ block_result[i].index = 0


(***************************************************************************)
(* Chunk::get_block (region_loader.rs:86-98) on a chunk with sections_len   *)
(* sections, each holding a Blockstates like the one above.                 *)
(***************************************************************************)
MaxSections == 24      \* largest sections.len() tried

ChunkHeight == 384     \* line 88: y >= 384 is refused

\* x and z tried: the first and last column of a chunk, and the one past it
ColumnCoords == {0, SectionSide - 1, SectionSide}

HeightCoords == (0 - 1)..ChunkHeight

ChunkResult(x, y, z, kind) == <<[x |-> x, y |-> y, z |-> z, kind |-> kind]>>

ChunkInit ==
    /\ sections_len \in 0..MaxSections
    /\ chunk_result = <<>>
    /\ palette_len \in 1..2
    /\ has_data \in BOOLEAN
    /\ bits_per_block = <<>>
    /\ block_result = <<>>

\* lines 87-97; `self.sections[sect_idx]` panics for an index past the end
chunk_get_block(x, y, z) ==
    /\ chunk_result = <<>>
    /\ IF y < 0 \/ y >= ChunkHeight
       THEN /\ chunk_result' = ChunkResult(x, y, z, "Err")
            /\ UNCHANGED blockVars
       ELSE IF x >= SectionSide \/ z >= SectionSide
       THEN /\ chunk_result' = ChunkResult(x, y, z, "Err")
            /\ UNCHANGED blockVars
       ELSE LET sect_idx == y \div 16
                sect_y == rem_euclid(y, 16)
            IN IF sect_idx >= sections_len
               THEN /\ chunk_result' = ChunkResult(x, y, z, "panic")
                    /\ UNCHANGED blockVars
               ELSE /\ blockstates_get_block(x, sect_y, z)
                    /\ chunk_result' =
                          ChunkResult(x, y, z,
                                      IF block_result'[1].panic = "none"
                                      THEN "Ok" ELSE "panic")
    /\ UNCHANGED sections_len
    /\ UNCHANGED <<genVars, botVars, propsVars, handleVars, posVars, regionVars>>
    /\ UNCHANGED <<listVars, nameVars, lateVars, moreVars>>

\* one call per chunk
ChunkNext ==
    /\ chunk_result = <<>>
    /\ \E x \in ColumnCoords, y \in HeightCoords, z \in ColumnCoords :
          chunk_get_block(x, y, z)

InitChunk ==
    ChunkInit /\ GenIdle /\ BotIdle /\ PropsIdle /\ HandlesIdle /\ PosIdle
    /\ RegionIdle /\ ListIdle /\ NameIdle /\ LateIdle /\ MoreIdle

SpecChunk == InitChunk /\ [][ChunkNext]_vars

\* C21: Chunk::get_block returns Err for x >= 16, z >= 16 or y outside the
\* chunk's vertical range, and never panics, whatever sections the chunk has.
C21_OutOfRangeIsErr ==
    \A i \in DOMAIN chunk_result :
        LET r == chunk_result[i]
        IN /\ r.kind # "panic"
           /\ (r.x >= 16 \/ r.z >= 16 \/ r.y < 0 \/ r.y >= 16 * sections_len)
                 => r.kind = "Err"


(***************************************************************************)
(* Region file names.  A name is the sequence of its fields between the     *)
(* dots, a field the sequence of its parts between underscores, and a part  *)
(* is either a word or the decimal text of an integer: `r.-1.2.mca` is      *)
(* <<<<r>>, <<-1>>, <<2>>, <<mca>>>> and `r.0_0.mca` is                      *)
(* <<<<r>>, <<0, 0>>, <<mca>>>>.                                             *)
(***************************************************************************)
MaxRegion == 2         \* region coordinates range over -MaxRegion..MaxRegion

RegionRange == (0 - MaxRegion)..MaxRegion

Word(w) == [word |-> w, num |-> 0]

Number(n) == [word |-> "", num |-> n]

IsNumber(part) == part.word = ""

\* region_loader.rs:124-126 and region_handler.rs:50-52: format!("r.{}.{}.mca", x, z)
to_file_name(x, z) == <<<<Word("r")>>, <<Number(x)>>, <<Number(z)>>, <<Word("mca")>>>>

\* names that are no region file names
OtherNames ==
    { <<<<Word("invalid")>>, <<Word("mca")>>>>,
      <<<<Word("r")>>, <<Number(0)>>, <<Number(0)>>, <<Word("dat")>>>>,
      <<<<Word("r")>>, <<Number(0), Number(0)>>, <<Word("mca")>>>>,
      <<<<Word("r")>>, <<Word("a"), Word("b")>>, <<Word("mca")>>>>,
      <<<<Word("r")>>, <<Word("a")>>, <<Number(0)>>, <<Word("mca")>>>>,
      <<<<Word("r")>>, <<Word("mca")>>>> }

RegionNames == {to_file_name(x, z) : x \in RegionRange, z \in RegionRange}

\* the outcome of a parser: "Ok" with a position, "Err" (or None), or "panic"
ParseResult(kind, x, z) == [kind |-> kind, x |-> x, z |-> z]

\* region_loader.rs:110-122: split('.') must give 3 fields r, <coords>, mca;
\* the coords split at '_' into 2 parts, each parsed with expect
try_parse_file_name(name) ==
    IF Len(name) # 3 \/ name[1] # <<Word("r")>> \/ name[3] # <<Word("mca")>>
    THEN ParseResult("Err", 0, 0)
    ELSE IF Len(name[2]) # 2
    THEN ParseResult("Err", 0, 0)
    ELSE IF ~IsNumber(name[2][1]) \/ ~IsNumber(name[2][2])
    THEN ParseResult("panic", 0, 0)
    ELSE ParseResult("Ok", name[2][1].num, name[2][2].num)

\* str::parse::<i32> of a whole field
ParsesAsInt(field) == Len(field) = 1 /\ IsNumber(field[1])

\* bin region_handler.rs:17-32: starts with "r.", ends with ".mca", 4 fields,
\* the two in the middle parse as i32
parse_region_filename(name) ==
    IF Len(name) < 2 \/ name[1] # <<Word("r")>> \/ name[Len(name)] # <<Word("mca")>>
    THEN ParseResult("Err", 0, 0)
    ELSE IF Len(name) # 4
    THEN ParseResult("Err", 0, 0)
    ELSE IF ~ParsesAsInt(name[2]) \/ ~ParsesAsInt(name[3])
    THEN ParseResult("Err", 0, 0)
    ELSE ParseResult("Ok", name[2][1].num, name[3][1].num)

NameInit ==
    /\ file_name \in RegionNames \cup OtherNames
    /\ parsed = <<>>
    /\ parsed_bin = <<>>

CallTryParseFileName ==
    /\ parsed = <<>>
    /\ parsed' = <<try_parse_file_name(file_name)>>
    /\ UNCHANGED <<file_name, parsed_bin>>
    /\ UNCHANGED <<baseVars, chunkVars, listVars, lateVars, moreVars>>

CallParseRegionFilename ==
    /\ parsed_bin = <<>>
    /\ parsed_bin' = <<parse_region_filename(file_name)>>
    /\ UNCHANGED <<file_name, parsed>>
    /\ UNCHANGED <<baseVars, chunkVars, listVars, lateVars, moreVars>>

NameNext == CallTryParseFileName \/ CallParseRegionFilename

BaseIdle ==
    /\ GenIdle /\ BotIdle /\ PropsIdle /\ HandlesIdle /\ PosIdle /\ RegionIdle
    /\ BlocksIdle

InitName ==
    NameInit /\ BaseIdle /\ ChunkIdle /\ ListIdle /\ LateIdle /\ MoreIdle

SpecName == InitName /\ [][NameNext]_vars

\* C23: the name r.<x>.<z>.mca made by to_file_name parses back to (x, z) for
\* every signed x, z, and every other name is rejected with an error, never
\* with a panic; this for both parsers.
C23_FileNameRoundTrip ==
    \A r \in {parsed[i] : i \in DOMAIN parsed} \cup
               {parsed_bin[i] : i \in DOMAIN parsed_bin} :
        IF file_name \in RegionNames
        THEN r.kind = "Ok" /\ file_name = to_file_name(r.x, r.z)
        ELSE r.kind = "Err"


(***************************************************************************)
(* AnvilRegionHandler::list_chunks (bin region_handler.rs:56-87) on a       *)
(* directory of files; a region file marks the chunks at some of its 32x32  *)
(* offsets as present (non-zero location record).                           *)
(***************************************************************************)
MaxPresent == 2        \* chunks a region file of the directory marks present

RegionSide == 32       \* lines 37-38: for cx in 0..32, for cz in 0..32

\* the offsets a file may mark present, in a fixed order
PresentOrder == <<<<0, 0>>, <<31, 31>>, <<5, 9>>, <<31, 0>>>>

PresentOptions == {{PresentOrder[i] : i \in 1..n} : n \in 0..MaxPresent}

ListedRegions == {<<0, 0>>, <<-1, 0>>}

DirEntry(name, present) == [name |-> name, present |-> present]

DirCandidates ==
    {DirEntry(to_file_name(r[1], r[2]), pr) : r \in ListedRegions, pr \in PresentOptions}
    \cup {DirEntry(n, {}) : n \in {<<<<Word("invalid")>>, <<Word("mca")>>>>,
                                   <<<<Word("r")>>, <<Number(0)>>, <<Number(0)>>,
                                     <<Word("dat")>>>>}}

\* a directory holds at most one file of a name
Directories ==
    {S \in SUBSET DirCandidates : \A a \in S, b \in S : a.name = b.name => a = b}

McChunkPos(x, y) == [x |-> x, y |-> y]

\* lines 34-43
region_to_chunk_coords(rx, rz) ==
    {<<rx * 32 + cx, rz * 32 + cz>> : cx \in 0..(RegionSide - 1),
                                      cz \in 0..(RegionSide - 1)}

ListInit ==
    /\ dir_exists \in BOOLEAN
    /\ dir_files \in (IF dir_exists THEN Directories ELSE {{}})
    /\ listed = <<>>

ListResult(kind, chunks) == <<[kind |-> kind, chunks |-> chunks]>>

\* lines 56-87: every position of every file whose name parses is pushed
list_chunks ==
    /\ listed = <<>>
    /\ IF ~dir_exists
       THEN listed' = ListResult("Ok", {})
       ELSE \/ \* read_dir or an entry of it fails
               listed' = ListResult("Err", {})
            \/ listed' = ListResult("Ok",
                  UNION {IF parse_region_filename(f.name).kind = "Ok"
                         THEN {McChunkPos(c[1], c[2]) :
                                  c \in region_to_chunk_coords(
                                            parse_region_filename(f.name).x,
                                            parse_region_filename(f.name).z)}
                         ELSE {} : f \in dir_files})
    /\ UNCHANGED <<dir_exists, dir_files>>
    /\ UNCHANGED <<baseVars, chunkVars, nameVars, lateVars, moreVars>>

ListNext == list_chunks

InitList ==
    ListInit /\ BaseIdle /\ ChunkIdle /\ NameIdle /\ LateIdle /\ MoreIdle

SpecList == InitList /\ [][ListNext]_vars

\* the chunk positions the region files of the directory mark present
PresentChunks ==
    UNION {IF f.name \in {to_file_name(r[1], r[2]) : r \in ListedRegions}
           THEN LET r == CHOOSE q \in ListedRegions : f.name = to_file_name(q[1], q[2])
                IN {McChunkPos(r[1] * 32 + o[1], r[2] * 32 + o[2]) : o \in f.present}
           ELSE {} : f \in dir_files}

\* C22: list_chunks yields exactly the chunk positions that some r.X.Z.mca
\* file of the directory marks present; other files contribute nothing and
\* chunks absent from a region file are not listed.
C22_ListsPresentChunks ==
    \A i \in DOMAIN listed :
        listed[i].kind = "Ok" => listed[i].chunks = PresentChunks


(***************************************************************************)
(* Dir, the in-memory file trie (ssmc-core/src/util/file_trie.rs): a Dir   *)
(* maps names to entries, an entry is a file or a Dir.  A Dir is a         *)
(* function from the names it holds to records [kind, data, dir].          *)
(***************************************************************************)
MaxOps == 2           \* calls made on one root Dir
PathDepth == 3        \* components of the deepest path of the tests, a/b/c.txt

Names == {"a", "b"}

\* Path (file_trie.rs:7-8): a vector of components
TreePaths == UNION {[1..n -> Names] : n \in 0..PathDepth}

\* Entry::File(File::Inline(data)) and Entry::Dir(dir) (file_trie.rs:269-273)
EntryFile(data) == [kind |-> "file", data |-> data, dir |-> EmptyDir]

EntryDir(dir) == [kind |-> "dir", data |-> 0, dir |-> dir]

\* the entries given to put: two files of different bytes and Dir::new()
PutEntries == {EntryFile(1), EntryFile(2), EntryDir(EmptyDir)}

\* a mutation of Insert: the entry().or_insert() of a HashMap, which keeps
\* the entry the key already has
insert_if_absent(d, key, entry) ==
    [n \in DOMAIN d \cup {key} |-> IF n \in DOMAIN d THEN d[n] ELSE entry]

\* HashMap::insert (file_trie.rs:156, 169)
Insert(d, key, entry) ==
    [n \in DOMAIN d \cup {key} |-> IF n = key THEN entry ELSE d[n]]

\* a mutation of Remove: HashMap::clear, which drops every key
remove_every_key(d, key) == EmptyDir

\* HashMap::remove (file_trie.rs:199)
Remove(d, key) == [n \in DOMAIN d \ {key} |-> d[n]]

\* Dir::get (file_trie.rs:110-132): <<>> for None, <<entry>> for Some(entry)
RECURSIVE get(_, _)
get(d, path) ==
    IF path = <<>> THEN <<>>
    ELSE IF path[1] \notin DOMAIN d THEN <<>>
    ELSE IF Len(path) = 1 THEN <<d[path[1]]>>
    ELSE IF d[path[1]].kind = "dir" THEN get(d[path[1]].dir, Tail(path))
    ELSE <<>>

\* a mutation of intermediate_dir: a file in the way is replaced by a new
\* directory instead of being a conflict
intermediate_dir_over_file(d, first) ==
    IF first \in DOMAIN d /\ d[first].kind = "dir"
    THEN [conflict |-> FALSE, dir |-> d]
    ELSE [conflict |-> FALSE, dir |-> Insert(d, first, EntryDir(EmptyDir))]

\* "Get or create intermediate directory" (file_trie.rs:161-175): the Dir
\* after the step, and whether a file stood in the way
intermediate_dir(d, first) ==
    IF first \in DOMAIN d
    THEN IF d[first].kind = "dir"
         THEN [conflict |-> FALSE, dir |-> d]
         ELSE [conflict |-> TRUE, dir |-> d]
    ELSE [conflict |-> FALSE, dir |-> Insert(d, first, EntryDir(EmptyDir))]

\* Dir::put (file_trie.rs:146-180): the Dir after the call (it is changed in
\* place, whatever the call returns) and whether the call returned Ok
RECURSIVE put(_, _, _)
put(d, path, entry) ==
    IF path = <<>> THEN [ok |-> FALSE, dir |-> d]
    ELSE IF Len(path) = 1 THEN [ok |-> TRUE, dir |-> Insert(d, path[1], entry)]
    ELSE LET first == path[1]
             inter == intermediate_dir(d, first)
         IN IF inter.conflict THEN [ok |-> FALSE, dir |-> inter.dir]
            ELSE LET r == put(inter.dir[first].dir, Tail(path), entry)
                 IN [ok |-> r.ok,
                     dir |-> [inter.dir EXCEPT ![first] = EntryDir(r.dir)]]

\* Dir::delete (file_trie.rs:189-211): the Dir after the call and the bool
\* the call returned
RECURSIVE delete(_, _)
delete(d, path) ==
    IF path = <<>> THEN [ok |-> FALSE, dir |-> d]
    ELSE IF Len(path) = 1
         THEN [ok |-> path[1] \in DOMAIN d, dir |-> Remove(d, path[1])]
    ELSE LET first == path[1]
         IN IF first \in DOMAIN d /\ d[first].kind = "dir"
            THEN LET r == delete(d[first].dir, Tail(path))
                 IN [ok |-> r.ok, dir |-> [d EXCEPT ![first] = EntryDir(r.dir)]]
            ELSE [ok |-> FALSE, dir |-> d]

TreeOp(op, path, entry, ok, found) ==
    [op |-> op, path |-> path, entry |-> entry, ok |-> ok, found |-> found]

\* Dir::new() (file_trie.rs:106-108)
TreeInit ==
    /\ tree = EmptyDir
    /\ tree_prev = EmptyDir
    /\ tree_op = <<>>
    /\ tree_ops = 0

\* root.put(path, entry)
CallPut(path, entry) ==
    /\ tree_ops < MaxOps
    /\ tree' = put(tree, path, entry).dir
    /\ tree_prev' = tree
    /\ tree_op' = <<TreeOp("put", path, <<entry>>, put(tree, path, entry).ok, <<>>)>>
    /\ tree_ops' = tree_ops + 1
    /\ UNCHANGED <<earlyVars, mountVars, bundleVars, moreVars>>

\* root.delete(path)
CallDelete(path) ==
    /\ tree_ops < MaxOps
    /\ tree' = delete(tree, path).dir
    /\ tree_prev' = tree
    /\ tree_op' = <<TreeOp("delete", path, <<>>, delete(tree, path).ok, <<>>)>>
    /\ tree_ops' = tree_ops + 1
    /\ UNCHANGED <<earlyVars, mountVars, bundleVars, moreVars>>

\* root.get(path)
CallGet(path) ==
    /\ tree_ops < MaxOps
    /\ tree_prev' = tree
    /\ tree_op' = <<TreeOp("get", path, <<>>, TRUE, get(tree, path))>>
    /\ tree_ops' = tree_ops + 1
    /\ UNCHANGED tree
    /\ UNCHANGED <<earlyVars, mountVars, bundleVars, moreVars>>

TreeNext ==
    \/ \E path \in TreePaths, entry \in PutEntries : CallPut(path, entry)
    \/ \E path \in TreePaths : CallDelete(path)
    \/ \E path \in TreePaths : CallGet(path)

\* none of the flex-mc and bin subsystems is active
EarlyIdle == BaseIdle /\ ChunkIdle /\ ListIdle /\ NameIdle

InitTree == TreeInit /\ EarlyIdle /\ MountIdle /\ BundleIdle /\ MoreIdle

SpecTree == InitTree /\ [][TreeNext]_vars

\* the proper prefixes of a path
ProperPrefixes(path) == {SubSeq(path, 1, n) : n \in 1..(Len(path) - 1)}

\* q is path or lies below it
AtOrBelow(q, path) == Len(q) >= Len(path) /\ SubSeq(q, 1, Len(path)) = path

\* a proper prefix of the path is a file of the Dir
FileInTheWay(d, path) ==
    \E q \in ProperPrefixes(path) : get(d, q) # <<>> /\ get(d, q)[1].kind = "file"

\* what is at q is as it was before the call; a directory on the way to path
\* stays a directory (what is below it is compared path by path)
SameAt(q, path) ==
    IF q \in ProperPrefixes(path)
    THEN (get(tree_prev, q) # <<>>)
            => get(tree, q) # <<>> /\ get(tree, q)[1].kind = get(tree_prev, q)[1].kind
    ELSE get(tree, q) = get(tree_prev, q)

\* C24: for a non-empty path none of whose proper prefixes is a file, put
\* succeeds, every proper prefix of the path is then a directory, get(path)
\* returns the entry that was put, whatever was at the path before, and what
\* is at a path that is neither the path nor below it is unchanged.
C24_PutThenGet ==
    \A i \in DOMAIN tree_op :
        LET o == tree_op[i] IN
        (o.op = "put" /\ o.path # <<>> /\ ~FileInTheWay(tree_prev, o.path))
        => /\ o.ok
           /\ get(tree, o.path) = o.entry
           /\ \A q \in ProperPrefixes(o.path) :
                 get(tree, q) # <<>> /\ get(tree, q)[1].kind = "dir"
           /\ \A q \in TreePaths : ~AtOrBelow(q, o.path) => SameAt(q, o.path)

\* a put took the place of a directory that had entries
C24_Witness ==
    \E i \in DOMAIN tree_op :
        /\ tree_op[i].op = "put"
        /\ tree_op[i].ok
        /\ get(tree_prev, tree_op[i].path) # <<>>
        /\ get(tree_prev, tree_op[i].path)[1].kind = "dir"
        /\ DOMAIN get(tree_prev, tree_op[i].path)[1].dir # {}
        /\ get(tree, tree_op[i].path) = tree_op[i].entry

\* C25: after delete(path), get(path) is None; delete returns true exactly
\* when there was an entry at the path; what is at a path that is neither the
\* path nor below it is unchanged, the directories on the way to the path
\* stay; when delete returns false the Dir is unchanged.
C25_DeleteRemovesOnlyThePath ==
    \A i \in DOMAIN tree_op :
        LET o == tree_op[i] IN
        o.op = "delete"
        => /\ get(tree, o.path) = <<>>
           /\ o.ok <=> get(tree_prev, o.path) # <<>>
           /\ \A q \in TreePaths : ~AtOrBelow(q, o.path) => SameAt(q, o.path)
           /\ \A q \in ProperPrefixes(o.path) :
                 (get(tree_prev, q) = <<>>) => get(tree, q) = <<>>
           /\ ~o.ok => tree = tree_prev

\* a nested entry was deleted and its parent directory is still there
C25_Witness ==
    \E i \in DOMAIN tree_op :
        /\ tree_op[i].op = "delete"
        /\ tree_op[i].ok
        /\ Len(tree_op[i].path) = 2
        /\ get(tree, <<tree_op[i].path[1]>>) = <<EntryDir(EmptyDir)>>

\* C26: put at the empty path, or at a path one of whose proper prefixes is
\* a file, fails with PathConflict; a put that fails leaves the Dir as it was.
C26_PathConflictLeavesTree ==
    \A i \in DOMAIN tree_op :
        LET o == tree_op[i] IN
        o.op = "put"
        => /\ (o.path = <<>> \/ FileInTheWay(tree_prev, o.path)) => ~o.ok
           /\ ~o.ok => tree = tree_prev

\* a put failed at a file found below an existing directory
C26_Witness ==
    \E i \in DOMAIN tree_op :
        /\ tree_op[i].op = "put"
        /\ ~tree_op[i].ok
        /\ Len(tree_op[i].path) = 3
        /\ get(tree_prev, SubSeq(tree_op[i].path, 1, 2)) # <<>>
        /\ get(tree_prev, SubSeq(tree_op[i].path, 1, 2))[1].kind = "file"


(***************************************************************************)
(* Mounting a Dir and loading it back (ssmc-core/src/util/fs_converter.rs) *)
(* through an FsHandler (ssmc-core/src/infra/fs_handler.rs).  Physical     *)
(* paths are written relative to the base directory D, as sequences of     *)
(* components; <<>> is D itself.                                           *)
(***************************************************************************)
MountDepth == 2       \* directories nested in the Dir that is mounted

FsHandlers == {"default", "on_memory"}

\* File::Inline(data): the bytes of the files of the mounted Dir
FileData == {1, 2}

\* the Dirs whose directories nest at most n deep
RECURSIVE Dirs(_)
Dirs(n) ==
    IF n = 0 THEN {EmptyDir}
    ELSE UNION {[S -> {EntryFile(b) : b \in FileData}
                      \cup {EntryDir(d) : d \in Dirs(n - 1)}] : S \in SUBSET Names}

\* FsHandler::mkdir (fs_handler.rs:84-87 create_dir_all, 219-237): the
\* directory and its parents up to D
mkdir(dk, path) ==
    [dk EXCEPT !.dirs = @ \cup {SubSeq(path, 1, n) : n \in 1..Len(path)}]

\* FsHandler::write (fs_handler.rs:93-112, 264-280): the parent directories,
\* then the bytes
write(dk, path, data) ==
    LET made == mkdir(dk, SubSeq(path, 1, Len(path) - 1))
    IN [made EXCEPT !.files = [q \in DOMAIN @ \cup {path} |->
                                  IF q = path THEN data ELSE @[q]]]

\* the paths right below a path of the disk
Children(dk, path) ==
    {q \in DOMAIN dk.files \cup dk.dirs :
        Len(q) = Len(path) + 1 /\ SubSeq(q, 1, Len(path)) = path}

\* FsHandler::list_entries: read_dir fails on what is no directory
\* (fs_handler.rs:29-40), the in-memory handler returns Ok whatever the path
\* is (fs_handler.rs:186-217)
list_entries(handler, dk, path) ==
    IF handler = "default" /\ path # <<>> /\ path \notin dk.dirs
    THEN [ok |-> FALSE, entries |-> {}]
    ELSE [ok |-> TRUE, entries |-> Children(dk, path)]

\* TrieToFsConverter::write_dir_recursive (fs_converter.rs:103-136): mkdir
\* of the directory unless it is the root, then every entry of it; names is
\* what `for (name, entry) in dir.iter()` has still to visit
RECURSIVE write_entries(_, _, _, _)
write_entries(dk, virtual_path, dir, names) ==
    IF names = {} THEN dk
    ELSE LET name == CHOOSE n \in names : TRUE
             child_path == Append(virtual_path, name)
             after == IF dir[name].kind = "file"
                      THEN write(dk, child_path, dir[name].data)
                      ELSE write_entries(mkdir(dk, child_path), child_path,
                                         dir[name].dir, DOMAIN dir[name].dir)
         IN write_entries(after, virtual_path, dir, names \ {name})

\* TrieToFsConverter::write_directory (fs_converter.rs:91-93)
write_directory(dk, dir) == write_entries(dk, <<>>, dir, DOMAIN dir)

\* the virtual path of an entry (fs_converter.rs:42-53): entry_path with the
\* prefix base_path stripped, whatever directory is being listed
virtual_path_of(current_path, entry_path) == entry_path

\* FsToTrieConverter::load_directory_recursive (fs_converter.rs:32-73):
\* [ok, dir], the Dir filled so far and whether no step returned an error;
\* entries is what `for entry_path in entries` has still to visit
RECURSIVE load_entries(_, _, _, _, _)
load_entries(handler, dk, current_path, dir, entries) ==
    IF entries = {} THEN [ok |-> TRUE, dir |-> dir]
    ELSE LET entry_path == CHOOSE q \in entries : TRUE
             virtual_path == virtual_path_of(current_path, entry_path)
             listing == list_entries(handler, dk, entry_path)
             subdir == load_entries(handler, dk, entry_path, EmptyDir,
                                    listing.entries)
             added ==
                 IF listing.ok
                 THEN IF subdir.ok
                      THEN put(dir, virtual_path, EntryDir(subdir.dir))
                      ELSE [ok |-> FALSE, dir |-> dir]
                 ELSE IF entry_path \in DOMAIN dk.files
                      THEN put(dir, virtual_path, EntryFile(dk.files[entry_path]))
                      ELSE [ok |-> FALSE, dir |-> dir]
         IN IF added.ok
            THEN load_entries(handler, dk, current_path, added.dir,
                              entries \ {entry_path})
            ELSE [ok |-> FALSE, dir |-> added.dir]

\* FsToTrieConverter::load_directory (fs_converter.rs:19-23)
load_directory(handler, dk) ==
    LET listing == list_entries(handler, dk, <<>>)
    IN IF listing.ok
       THEN load_entries(handler, dk, <<>>, EmptyDir, listing.entries)
       ELSE [ok |-> FALSE, dir |-> EmptyDir]

\* a Dir of inline files and an empty directory D
MountInit ==
    /\ fs_handler \in FsHandlers
    /\ mount_tree \in Dirs(MountDepth)
    /\ disk = EmptyDisk
    /\ mount_pc = "start"
    /\ loaded = <<>>

\* trie_to_fs.write_directory(&dir, D)
CallWriteDirectory ==
    /\ mount_pc = "start"
    /\ disk' = write_directory(disk, mount_tree)
    /\ mount_pc' = "written"
    /\ UNCHANGED <<fs_handler, mount_tree, loaded>>
    /\ UNCHANGED <<earlyVars, treeVars, bundleVars, moreVars>>

\* fs_to_trie.load_directory(D)
CallLoadDirectory ==
    /\ mount_pc = "written"
    /\ loaded' = <<load_directory(fs_handler, disk)>>
    /\ mount_pc' = "loaded"
    /\ UNCHANGED <<fs_handler, mount_tree, disk>>
    /\ UNCHANGED <<earlyVars, treeVars, bundleVars, moreVars>>

MountNext == CallWriteDirectory \/ CallLoadDirectory

InitMount == MountInit /\ EarlyIdle /\ TreeIdle /\ BundleIdle /\ MoreIdle

SpecMount == InitMount /\ [][MountNext]_vars

\* C27: a Dir of inline files mounted to an empty directory and loaded back
\* is the Dir that was mounted: the same files with the same bytes at the
\* same paths, the same directories, and nothing else.
C27_MountRoundTrip ==
    \A i \in DOMAIN loaded : loaded[i].ok /\ loaded[i].dir = mount_tree


(***************************************************************************)
(* DefaultFileBundleLoader::write_contents                                  *)
(* (ssmc-core/src/infra/file_bundle_loader.rs:105-153) on a FileBundle      *)
(* (ssmc-core/src/domain/fs_content.rs): the directories one after the      *)
(* other, then the files through buffer_unordered.                          *)
(***************************************************************************)
MaxEntries == 3       \* entries of the FileBundle
MaxConcurrency == 2   \* largest max_concurrency given to with_max_concurrency

\* rel_path of the entries, as sequences of components: a name, or a name
\* below a name
BundlePaths == {<<n>> : n \in Names} \cup {<<m, n>> : m, n \in Names}

\* FileEntry (fs_content.rs:13-18); source is "dir" for FileSource::Directory()
\* and "file" for the three sources of bytes
FileEntry(path, source) == [path |-> path, source |-> source]

\* the bundles: a BTreeSet ordered by rel_path holds one entry for each path
FileBundles ==
    {b \in SUBSET {FileEntry(p, src) : p \in BundlePaths, src \in {"dir", "file"}} :
        /\ Cardinality(b) <= MaxEntries
        /\ \A e, f \in b : e.path = f.path => e = f}

\* the order of str on the component names
NameLess(m, n) == m = "a" /\ n = "b"

\* Ord for FileEntry (fs_content.rs:26-30): rel_path.cmp, the order of
\* PathBuf, which compares component by component, a prefix first
RECURSIVE PathLess(_, _)
PathLess(p, q) ==
    IF p = <<>> THEN q # <<>>
    ELSE IF q = <<>> THEN FALSE
    ELSE IF p[1] = q[1] THEN PathLess(Tail(p), Tail(q))
    ELSE NameLess(p[1], q[1])

\* a mutation of bundle_entries: the entries from the largest path down
RECURSIVE entries_in_reverse(_)
entries_in_reverse(b) ==
    IF b = {} THEN <<>>
    ELSE LET last == CHOOSE e \in b : \A f \in b \ {e} : PathLess(f.path, e.path)
         IN <<last>> \o entries_in_reverse(b \ {last})

\* FileBundle::entries (fs_content.rs:105-108): the entries in their order
RECURSIVE bundle_entries(_)
bundle_entries(b) ==
    IF b = {} THEN <<>>
    ELSE LET first == CHOOSE e \in b : \A f \in b \ {e} : PathLess(e.path, f.path)
         IN <<first>> \o bundle_entries(b \ {first})

\* directories and files of write_contents (file_bundle_loader.rs:113-121)
directories == SelectSeq(bundle_entries(wc_bundle), LAMBDA e : e.source = "dir")

files == SelectSeq(bundle_entries(wc_bundle), LAMBDA e : e.source # "dir")

file_count == Len(files)

\* the argument of buffer_unordered (file_bundle_loader.rs:145)
buffer_limit == IF max_concurrency < file_count THEN max_concurrency ELSE file_count

\* the file writes in progress: started and not ended
InProgress ==
    {wc_started[i].path : i \in DOMAIN wc_started}
        \ {wc_results[i].path : i \in DOMAIN wc_results}

\* with_max_concurrency(.., max_concurrency) and a call of write_contents
BundleInit ==
    /\ wc_bundle \in FileBundles
    /\ max_concurrency \in 0..MaxConcurrency
    /\ wc_pc = "dirs"
    /\ wc_created = <<>>
    /\ wc_started = <<>>
    /\ wc_results = <<>>
    /\ wc_result = "none"

\* one turn of `for entry in directories` (file_bundle_loader.rs:124-126):
\* mkdir of the next directory, whose error is returned with `?`
CreateDirectory ==
    /\ wc_pc = "dirs"
    /\ Len(wc_created) < Len(directories)
    /\ \/ /\ wc_created' = Append(wc_created, directories[Len(wc_created) + 1].path)
          /\ UNCHANGED <<wc_pc, wc_result>>
       \/ /\ wc_pc' = "returned"
          /\ wc_result' = "Err"
          /\ UNCHANGED wc_created
    /\ UNCHANGED <<wc_bundle, max_concurrency, wc_started, wc_results>>
    /\ UNCHANGED <<earlyVars, treeVars, mountVars, moreVars>>

\* the end of the loop: Ok(()) without files (file_bundle_loader.rs:134, 152),
\* the stream of writes otherwise
DirectoriesDone ==
    /\ wc_pc = "dirs"
    /\ Len(wc_created) = Len(directories)
    /\ IF file_count > 0
       THEN wc_pc' = "files" /\ UNCHANGED wc_result
       ELSE wc_pc' = "returned" /\ wc_result' = "Ok"
    /\ UNCHANGED <<wc_bundle, max_concurrency, wc_created, wc_started, wc_results>>
    /\ UNCHANGED <<earlyVars, treeVars, mountVars, moreVars>>

\* buffer_unordered takes the next future of the stream while fewer than its
\* limit are in progress (file_bundle_loader.rs:135-145); collect into a Vec
\* of results goes on whatever the results so far are (line 146)
StartWrite ==
    /\ wc_pc = "files"
    /\ Len(wc_started) < file_count
    /\ Cardinality(InProgress) < buffer_limit
    /\ wc_started' = Append(wc_started,
           [path |-> files[Len(wc_started) + 1].path,
            after_error |-> \E i \in DOMAIN wc_results : ~wc_results[i].ok])
    /\ UNCHANGED <<wc_bundle, max_concurrency, wc_pc, wc_created, wc_results,
                   wc_result>>
    /\ UNCHANGED <<earlyVars, treeVars, mountVars, moreVars>>

\* write_file_entry of a write in progress returns (file_bundle_loader.rs:
\* 47-74): Ok after fs_handler.write, or the error of read, fetch or write.
\* buffer_unordered polls the writes in progress only after it has taken
\* from the stream all the futures its limit allows.
FinishWrite(path, ok) ==
    /\ wc_pc = "files"
    /\ path \in InProgress
    /\ Len(wc_started) = file_count \/ Cardinality(InProgress) = buffer_limit
    /\ wc_results' = Append(wc_results, [path |-> path, ok |-> ok])
    /\ UNCHANGED <<wc_bundle, max_concurrency, wc_pc, wc_created, wc_started,
                   wc_result>>
    /\ UNCHANGED <<earlyVars, treeVars, mountVars, moreVars>>

\* the stream has ended: the results collected into one Result, whose error
\* is returned with `?` (file_bundle_loader.rs:146-152)
ReturnResults ==
    /\ wc_pc = "files"
    /\ Len(wc_results) = file_count
    /\ wc_pc' = "returned"
    /\ wc_result' = IF \A i \in DOMAIN wc_results : wc_results[i].ok
                    THEN "Ok" ELSE "Err"
    /\ UNCHANGED <<wc_bundle, max_concurrency, wc_created, wc_started, wc_results>>
    /\ UNCHANGED <<earlyVars, treeVars, mountVars, moreVars>>

BundleNext ==
    \/ CreateDirectory
    \/ DirectoriesDone
    \/ StartWrite
    \/ \E path \in BundlePaths, ok \in BOOLEAN : FinishWrite(path, ok)
    \/ ReturnResults

InitBundle == BundleInit /\ EarlyIdle /\ TreeIdle /\ MountIdle /\ MoreIdle

SpecBundle == InitBundle /\ [][BundleNext]_vars

\* the executor polls write_contents for as long as it can make a step, and
\* every write that was started ends
FairSpecBundle == SpecBundle /\ WF_vars(BundleNext)

\* C28: once a write has failed, no write that had not started is started.
C28_NoWriteStartsAfterError ==
    \A i \in DOMAIN wc_started : ~wc_started[i].after_error

\* C29: every directory entry is created before a file write is issued, and
\* a directory entry is created after the directory entries above it.
C29_DirectoriesFirstParentsFirst ==
    /\ wc_started # <<>> => Len(wc_created) = Len(directories)
    /\ \A i \in DOMAIN wc_created :
          \A e \in wc_bundle :
              (e.source = "dir" /\ e.path \in ProperPrefixes(wc_created[i]))
              => \E j \in 1..(i - 1) : wc_created[j] = e.path

\* a directory and the directory below it were created, and a file write is
\* in progress
C29_Witness ==
    /\ \E i, j \in DOMAIN wc_created :
          i < j /\ wc_created[i] \in ProperPrefixes(wc_created[j])
    /\ InProgress # {}

\* C30: the file writes in progress are never more than max_concurrency, and
\* the call returns.
C30_BoundedAndReturns ==
    /\ [](Cardinality(InProgress) <= max_concurrency)
    /\ <>(wc_pc = "returned")


(***************************************************************************)
(* Path segments: Path of the file trie (ssmc-core/src/util/file_trie.rs:  *)
(* 10-45), VirtualPath (ssmc-core/src/infra/virtual_fs.rs:15-102) and the  *)
(* paths of a runtime manifest put into a Dir and mounted                   *)
(* (ssmc-core/src/infra/mc_java.rs:134-163).  A string is the sequence of  *)
(* its characters, a segment is a string.                                   *)
(***************************************************************************)
MaxRaw == 4           \* characters of a path string

\* the characters of the path strings: a letter, the dot, the separator and
\* one of INVALID_CHARS (virtual_fs.rs:51)
Chars == {"a", ".", "/", ":"}

RawPaths == UNION {[1..n -> Chars] : n \in 0..MaxRaw}

\* str::split('/'): the pieces between the separators, empty ones included
RECURSIVE split(_)
split(str) ==
    IF \A i \in DOMAIN str : str[i] # "/" THEN <<str>>
    ELSE LET i == CHOOSE j \in DOMAIN str :
                      str[j] = "/" /\ \A h \in 1..(j - 1) : str[h] # "/"
         IN <<SubSeq(str, 1, i - 1)>> \o split(SubSeq(str, i + 1, Len(str)))

\* Path::from_str (file_trie.rs:15-22): the non-empty pieces, unchecked
path_from_str(str) == SelectSeq(split(str), LAMBDA seg : seg # <<>>)

\* VirtualPath::validate_segment_chars (virtual_fs.rs:49-97) panics; the
\* reserved names and the control characters are not among the strings here
segment_panics(seg) ==
    \/ \E i \in DOMAIN seg : seg[i] \in {"/", ":"}
    \/ seg = <<".">>
    \/ seg = <<".", ".">>
    \/ seg # <<>> /\ seg[Len(seg)] = "."

\* VirtualPath::validate_segments (virtual_fs.rs:35-47) panics
segments_panic(segments) ==
    \/ segments = <<>>
    \/ \E i \in DOMAIN segments : segments[i] = <<>> \/ segment_panics(segments[i])

\* VirtualPath::from_str (virtual_fs.rs:21-33)
virtual_path_from_str(str) ==
    IF str = <<>> \/ str[1] = "/" \/ str[Len(str)] = "/"
    THEN [panic |-> TRUE, segments |-> <<>>]
    ELSE IF segments_panic(split(str))
         THEN [panic |-> TRUE, segments |-> <<>>]
         ELSE [panic |-> FALSE, segments |-> split(str)]

\* a path string of the manifest and an empty Dir (mc_java.rs:134)
SegInit ==
    /\ raw_path \in RawPaths
    /\ seg_virtual = <<>>
    /\ seg_put = <<>>
    /\ seg_tree = EmptyDir
    /\ seg_disk = <<>>

\* VirtualPath::from_str(path)
CallVirtualPathFromStr ==
    /\ seg_virtual = <<>>
    /\ seg_virtual' = <<virtual_path_from_str(raw_path)>>
    /\ UNCHANGED <<raw_path, seg_put, seg_tree, seg_disk>>
    /\ UNCHANGED <<earlyVars, lateVars, restVars>>

\* trie.put_file(Path::from_str(&path), File::Url(url)) (mc_java.rs:146-148)
PutManifestFile ==
    /\ seg_put = <<>>
    /\ seg_tree' = put(seg_tree, path_from_str(raw_path), EntryFile(1)).dir
    /\ seg_put' = <<[ok |-> put(seg_tree, path_from_str(raw_path), EntryFile(1)).ok,
                     path |-> path_from_str(raw_path)]>>
    /\ UNCHANGED <<raw_path, seg_virtual, seg_disk>>
    /\ UNCHANGED <<earlyVars, lateVars, restVars>>

\* the Dir is written below runtime_path (mc_java.rs:160-163), every file at
\* base_path.join(components.join("/")) (fs_converter.rs:152-155)
MountManifest ==
    /\ seg_put # <<>>
    /\ seg_put[1].ok
    /\ seg_disk = <<>>
    /\ seg_disk' = <<write_directory(EmptyDisk, seg_tree)>>
    /\ UNCHANGED <<raw_path, seg_virtual, seg_put, seg_tree>>
    /\ UNCHANGED <<earlyVars, lateVars, restVars>>

SegNext == CallVirtualPathFromStr \/ PutManifestFile \/ MountManifest

InitSeg == SegInit /\ EarlyIdle /\ LateIdle /\ RestIdle

SpecSeg == InitSeg /\ [][SegNext]_vars

\* a segment that is neither empty, nor `.`, nor `..`, and has no forbidden
\* character
ValidSegment(seg) ==
    /\ seg # <<>>
    /\ seg # <<".">>
    /\ seg # <<".", ".">>
    /\ \A i \in DOMAIN seg : seg[i] \notin {"/", ":"}

\* how deep below the base directory a physical path ends, -1 once it has
\* left the base directory
RECURSIVE DepthBelowBase(_, _)
DepthBelowBase(path, depth) ==
    IF depth < 0 THEN 0 - 1
    ELSE IF path = <<>> THEN depth
    ELSE IF path[1] = <<".", ".">> THEN DepthBelowBase(Tail(path), depth - 1)
    ELSE IF path[1] = <<".">> THEN DepthBelowBase(Tail(path), depth)
    ELSE DepthBelowBase(Tail(path), depth + 1)

\* C31: every path accepted by a path constructor and put has valid segments
\* only, and every file written by the mount lies below the base directory.
C31_SegmentsValid ==
    /\ \A i \in DOMAIN seg_virtual :
          ~seg_virtual[i].panic
          => \A j \in DOMAIN seg_virtual[i].segments :
                 ValidSegment(seg_virtual[i].segments[j])
    /\ \A i \in DOMAIN seg_put :
          seg_put[i].ok
          => \A j \in DOMAIN seg_put[i].path : ValidSegment(seg_put[i].path[j])
    /\ \A i \in DOMAIN seg_disk :
          \A q \in DOMAIN seg_disk[i].files : DepthBelowBase(q, 0) >= 1


\* ---------------------------------------------------------------------------
\* DefaultMcJavaLoader::ready_runtime (ssmc-core infra/mc_java.rs:113-169)
\* ---------------------------------------------------------------------------

\* how many ready_runtime calls are made
MaxCalls == 3

\* the runtime ids asked for
RuntimeIds == {"java-runtime-gamma", "jre-legacy"}

\* get_java_executable_path (mc_java.rs:214-223), not on windows
get_java_executable_path == <<"bin", "java">>

\* the files a manifest can name
ManifestFiles == {<<"bin", "java">>, <<"lib", "modules">>}

\* the manifests: the files in the order the mount writes them
Manifests ==
    {<<>>} \cup {<<f>> : f \in ManifestFiles}
           \cup {<<f, g>> : f, g \in ManifestFiles}

\* what the network and the disk answer during one call: all.json fetched,
\* the runtime found for the platform, the manifest fetched, and the file at
\* which the mount fails (0: none)
Remotes ==
    [all_ok : BOOLEAN, found : BOOLEAN, manifest_ok : BOOLEAN,
     files : Manifests, fail_at : 0..2]

\* a cache check that never finds the executable
java_executable_never_exists(dk, java_executable) == FALSE

\* java_executable.exists() (mc_java.rs:117)
java_executable_exists(dk, java_executable) == java_executable \in dk

\* fs::canonicalize(&java_executable) (mc_java.rs:166-167)
canonicalize(dk, java_executable, fetches, writes) ==
    IF java_executable \in dk
    THEN [result |-> "Ok", path |-> <<java_executable>>, fetches |-> fetches,
          writes |-> writes, disk |-> dk]
    ELSE [result |-> "Err", path |-> <<>>, fetches |-> fetches,
          writes |-> writes, disk |-> dk]

\* an early return with Err
RuntimeErr(dk, fetches, writes) ==
    [result |-> "Err", path |-> <<>>, fetches |-> fetches, writes |-> writes,
     disk |-> dk]

\* ready_runtime (mc_java.rs:113-169): what it returns, how many URLs it
\* fetched, how many files it wrote and the disk it leaves
ready_runtime(dk, version_id, remote) ==
    LET java_executable == <<version_id>> \o get_java_executable_path
        n == Len(remote.files)
        failed == remote.fail_at \in 1..n
        done == IF failed THEN remote.fail_at - 1 ELSE n
        written == {<<version_id>> \o remote.files[i] : i \in 1..done}
    IN  IF java_executable_exists(dk, java_executable)
        THEN canonicalize(dk, java_executable, 0, 0)
        ELSE IF ~remote.all_ok THEN RuntimeErr(dk, 1, 0)
        ELSE IF ~remote.found THEN RuntimeErr(dk, 1, 0)
        ELSE IF ~remote.manifest_ok THEN RuntimeErr(dk, 2, 0)
        ELSE IF failed THEN RuntimeErr(dk \cup written, 2 + remote.fail_at, done)
        ELSE canonicalize(dk \cup written, java_executable, 2 + n, n)

RtInit ==
    /\ rt_disk = {}
    /\ rt_log = <<>>

\* one call of ready_runtime(version_id)
CallReadyRuntime(version_id, remote) ==
    /\ Len(rt_log) < MaxCalls
    /\ rt_disk' = ready_runtime(rt_disk, version_id, remote).disk
    /\ rt_log' = Append(rt_log,
           [id |-> version_id,
            result |-> ready_runtime(rt_disk, version_id, remote).result,
            path |-> ready_runtime(rt_disk, version_id, remote).path,
            fetches |-> ready_runtime(rt_disk, version_id, remote).fetches,
            writes |-> ready_runtime(rt_disk, version_id, remote).writes])
    /\ UNCHANGED <<earlyVars, lateVars, segVars, vsVars, exVars, afterVars>>

RtNext == \E version_id \in RuntimeIds, remote \in Remotes :
              CallReadyRuntime(version_id, remote)

InitRt == RtInit /\ EarlyIdle /\ LateIdle /\ SegIdle /\ VsIdle /\ ExIdle /\ AfterIdle

SpecRt == InitRt /\ [][RtNext]_vars

\* C32: once ready_runtime(id) has returned Ok(path), every later call with
\* the same id fetches no URL, writes no file and returns Ok of the same path.
C32_SecondCallCached ==
    \A i, j \in DOMAIN rt_log :
        (i < j /\ rt_log[i].id = rt_log[j].id /\ rt_log[i].result = "Ok")
        => /\ rt_log[j].fetches = 0
           /\ rt_log[j].writes = 0
           /\ rt_log[j].result = "Ok"
           /\ rt_log[j].path = rt_log[i].path

\* a call that fetched and wrote returned Ok, and a later call with the same
\* id has returned
C32_Witness ==
    \E i, j \in DOMAIN rt_log :
        /\ i < j
        /\ rt_log[i].id = rt_log[j].id
        /\ rt_log[i].result = "Ok"
        /\ rt_log[i].writes > 0


\* ---------------------------------------------------------------------------
\* VanillaVersionLoader::ready_server (ssmc-core infra/vanilla.rs:50-130)
\* ---------------------------------------------------------------------------

\* the version ids of the manifest and of the request
VersionIds == {"1.20.1", "1.19.4"}

\* the urls a per-version document gives for the server download
ServerUrls == {1, 2}

\* File::Url(url) (file_trie.rs:97) as the data of a file entry: the urls are
\* the negative numbers, the bytes of File::Inline the positive ones
FileUrl(url) == 0 - url

\* the variant of a File (file_trie.rs:95-99)
ContentKind(data) == IF data < 0 THEN "Url" ELSE "Inline"

\* the names at the root of a world and below its directories
WorldNames == {"server.jar", "level.dat"}

WorldLeaves == {EntryFile(1), EntryFile(FileUrl(1))}

WorldSubdirs == {EmptyDir} \cup {[n \in {"level.dat"} |-> e] : e \in WorldLeaves}

\* the world_data trees: every name absent, a file, or a directory
WorldTrees ==
    UNION {[S -> WorldLeaves \cup {EntryDir(d) : d \in WorldSubdirs}] :
              S \in SUBSET WorldNames}

\* what the network and the runtime resolver answer during one call
ServerRemotes ==
    [manifest_ok : BOOLEAN, versions : SUBSET VersionIds, details_ok : BOOLEAN,
     server : {<<>>} \cup {<<u>> : u \in ServerUrls},
     java_version : {<<>>, <<"java-runtime-gamma">>}, runtime_ok : BOOLEAN]

\* a search of the manifest that takes whatever entry comes first
find_first_version(versions, id) == versions # {}

\* manifest.versions.into_iter().find(|v| v.id == version.version.id())
\* (vanilla.rs:72-76): an entry was found
find_version(versions, id) == id \in versions

\* a server file that holds the bytes of the jar
server_file_inline(url) == EntryFile(url)

\* File::Url(server_url) (vanilla.rs:94-97)
server_file(url) == EntryFile(FileUrl(url))

\* version_details.java_version.map_or("jre-legacy", |x| x.component)
\* (vanilla.rs:103-107)
java_version_id(java_version) ==
    IF java_version = <<>> THEN "jre-legacy" ELSE java_version[1]

\* a return with Err: no tree is returned
ServerErr(result, fetched, runtime_calls) ==
    [result |-> result, tree |-> <<>>, fetched |-> fetched,
     runtime_calls |-> runtime_calls]

\* ready_server (vanilla.rs:50-130): the result, the tree returned, the urls
\* fetched and the ids ready_runtime was called with
ready_server(world_data, id, remote) ==
    IF ~remote.manifest_ok
    THEN ServerErr("FetchFailed", <<"version_manifest_v2.json">>, <<>>)
    ELSE IF ~find_version(remote.versions, id)
    THEN ServerErr("VersionNotFound", <<"version_manifest_v2.json">>, <<>>)
    ELSE IF ~remote.details_ok
    THEN ServerErr("FetchFailed", <<"version_manifest_v2.json", "version_info.url">>, <<>>)
    ELSE IF remote.server = <<>>
    THEN ServerErr("ServerDownloadNotAvailable",
                   <<"version_manifest_v2.json", "version_info.url">>, <<>>)
    ELSE IF ~put(world_data, <<"server.jar">>, server_file(remote.server[1])).ok
    THEN ServerErr("PutFailed", <<"version_manifest_v2.json", "version_info.url">>, <<>>)
    ELSE IF ~remote.runtime_ok
    THEN ServerErr("RuntimeFailed", <<"version_manifest_v2.json", "version_info.url">>,
                   <<java_version_id(remote.java_version)>>)
    ELSE [result |-> "Ok",
          tree |-> <<put(world_data, <<"server.jar">>,
                         server_file(remote.server[1])).dir>>,
          fetched |-> <<"version_manifest_v2.json", "version_info.url">>,
          runtime_calls |-> <<java_version_id(remote.java_version)>>]

\* a world and no call yet
VsInit ==
    /\ vs_world \in WorldTrees
    /\ vs_request = <<>>
    /\ vs_result = <<>>

\* ready_server(world_data, version)
CallReadyServer(id, remote) ==
    /\ vs_request = <<>>
    /\ vs_request' = <<[id |-> id, remote |-> remote]>>
    /\ vs_result' = <<ready_server(vs_world, id, remote)>>
    /\ UNCHANGED vs_world
    /\ UNCHANGED <<earlyVars, lateVars, segVars, rtVars, exVars, afterVars>>

VsNext == \E id \in VersionIds, remote \in ServerRemotes : CallReadyServer(id, remote)

InitVs == VsInit /\ EarlyIdle /\ LateIdle /\ SegIdle /\ RtIdle /\ ExIdle /\ AfterIdle

SpecVs == InitVs /\ [][VsNext]_vars

\* the manifest was fetched and has no entry of the requested id
VersionUnknown(i) ==
    /\ vs_request[i].remote.manifest_ok
    /\ vs_request[i].id \notin vs_request[i].remote.versions

\* the per-version document was fetched and has no downloads.server
ServerAssetMissing(i) ==
    /\ vs_request[i].remote.manifest_ok
    /\ vs_request[i].id \in vs_request[i].remote.versions
    /\ vs_request[i].remote.details_ok
    /\ vs_request[i].remote.server = <<>>

\* C33: ready_server fails with the version-unknown error when no manifest
\* entry has the requested id and with the server-asset-missing error when the
\* per-version document has no downloads.server; in both cases ready_runtime
\* is not called and no tree is returned.
C33_ResolverErrors ==
    \A i \in DOMAIN vs_result :
        /\ VersionUnknown(i)
           => /\ vs_result[i].result = "VersionNotFound"
              /\ vs_result[i].runtime_calls = <<>>
              /\ vs_result[i].tree = <<>>
        /\ ServerAssetMissing(i)
           => /\ vs_result[i].result = "ServerDownloadNotAvailable"
              /\ vs_result[i].runtime_calls = <<>>
              /\ vs_result[i].tree = <<>>

\* a call for an id missing from a non-empty manifest has returned
C33_Witness ==
    \E i \in DOMAIN vs_result :
        VersionUnknown(i) /\ vs_request[i].remote.versions # {}

\* the paths of the files of a Dir, at most two components deep
FilePaths(d) ==
    {q \in {<<n>> : n \in WorldNames} \cup {<<m, n>> : m, n \in WorldNames} :
        get(d, q) # <<>> /\ get(d, q)[1].kind = "file"}

\* the entry at <<server.jar>> is the Url leaf of the server download, every
\* other root entry is the one of the input, and the jar was not fetched
StagedAtRoot(i) ==
    LET out == vs_result[i].tree[1]
    IN  /\ DOMAIN out = DOMAIN vs_world \cup {"server.jar"}
        /\ out["server.jar"].kind = "file"
        /\ ContentKind(out["server.jar"].data) = "Url"
        /\ out["server.jar"].data = FileUrl(vs_request[i].remote.server[1])
        /\ \A n \in DOMAIN vs_world : n # "server.jar" => out[n] = vs_world[n]
        /\ \A j \in DOMAIN vs_result[i].fetched :
               vs_result[i].fetched[j] # "downloads.server.url"

\* the file the world has at q is in the returned tree, at q and of the same
\* content kind
KeepsFile(i, q) ==
    LET out == vs_result[i].tree[1]
    IN  /\ get(out, q) # <<>>
        /\ get(out, q)[1].kind = "file"
        /\ ContentKind(get(out, q)[1].data) = ContentKind(get(vs_world, q)[1].data)

\* C34 as stated: the tree returned by a successful ready_server is the input
\* tree but for the Url leaf server.jar at the root, and every file of the
\* input keeps its path and its content kind.
C34_StagingFrame ==
    \A i \in DOMAIN vs_result :
        vs_result[i].result = "Ok"
        => /\ StagedAtRoot(i)
           /\ \A q \in FilePaths(vs_world) : KeepsFile(i, q)

\* C34 amended: the tree returned by a successful ready_server is the input
\* tree but for the Url leaf server.jar at the root, which replaces whatever
\* entry the input had under that name; every file of the input that is
\* neither server.jar nor below it keeps its path and its content kind.
C34_StagingFrameReplacing ==
    \A i \in DOMAIN vs_result :
        vs_result[i].result = "Ok"
        => /\ StagedAtRoot(i)
           /\ \A q \in FilePaths(vs_world) :
                  ~AtOrBelow(q, <<"server.jar">>) => KeepsFile(i, q)

\* a successful call for a world that has a file and a directory with a file
\* besides server.jar
C34_Witness ==
    \E i \in DOMAIN vs_result :
        /\ vs_result[i].result = "Ok"
        /\ \E q \in FilePaths(vs_world) : ~AtOrBelow(q, <<"server.jar">>)


\* ---------------------------------------------------------------------------
\* ServerExecutor: ChildProcessServerExecutor and MockServerExecutor
\* (bin service/server_executor.rs)
\* ---------------------------------------------------------------------------

\* how many calls are made on the executors
MaxExCalls == 3

\* the commands sent (server_executor_unit_test.rs:25-26)
ExCommands == {"say Hello", "time set day"}

\* new, with_start_failure, with_stop_failure, with_command_failure
\* (server_executor.rs:115-144)
MockConstructors ==
    {MockNew,
     [MockNew EXCEPT !.should_fail_start = TRUE],
     [MockNew EXCEPT !.should_fail_stop = TRUE],
     [MockNew EXCEPT !.should_fail_command = TRUE]}

\* a start that spawns although a child is there
child_start_again(c, os) ==
    IF os = "spawn fails"
    THEN [result |-> "Failed to start server", state |-> c]
    ELSE [result |-> "Ok", state |-> [c EXCEPT !.child = TRUE, !.stdin = TRUE]]

\* ChildProcessServerExecutor::start (server_executor.rs:32-64)
child_start(c, os) ==
    IF c.child
    THEN [result |-> "Server is already running", state |-> c]
    ELSE IF os = "spawn fails"
    THEN [result |-> "Failed to start server", state |-> c]
    ELSE [result |-> "Ok", state |-> [c EXCEPT !.child = TRUE, !.stdin = TRUE]]

\* ChildProcessServerExecutor::stop (server_executor.rs:66-84)
child_stop(c, os) ==
    IF c.stdin /\ os = "write fails"
    THEN [result |-> "Failed to send stop command", state |-> c]
    ELSE LET stopped == IF c.stdin
                        THEN [c EXCEPT !.piped = Append(c.piped, "stop")]
                        ELSE c
         IN  IF c.child /\ os = "wait fails"
             THEN [result |-> "Failed to wait for server process",
                   state |-> [stopped EXCEPT !.child = FALSE]]
             ELSE [result |-> "Ok",
                   state |-> [stopped EXCEPT !.child = FALSE, !.stdin = FALSE]]

\* ChildProcessServerExecutor::send_command (server_executor.rs:86-102)
child_send_command(c, command, os) ==
    IF c.stdin
    THEN IF os = "write fails"
         THEN [result |-> "Failed to send command", state |-> c]
         ELSE [result |-> "Ok", state |-> [c EXCEPT !.piped = Append(c.piped, command)]]
    ELSE [result |-> "Server is not running", state |-> c]

\* MockServerExecutor::start (server_executor.rs:165-176)
mock_start(m) ==
    IF m.should_fail_start THEN [result |-> "Mock start failure", state |-> m]
    ELSE IF m.is_running THEN [result |-> "Server is already running", state |-> m]
    ELSE [result |-> "Ok", state |-> [m EXCEPT !.is_running = TRUE]]

\* a stop that returns Ok and leaves is_running as it is
mock_stop_keeps_running(m) ==
    IF m.should_fail_stop THEN [result |-> "Mock stop failure", state |-> m]
    ELSE [result |-> "Ok", state |-> m]

\* MockServerExecutor::stop (server_executor.rs:178-185)
mock_stop(m) ==
    IF m.should_fail_stop THEN [result |-> "Mock stop failure", state |-> m]
    ELSE [result |-> "Ok", state |-> [m EXCEPT !.is_running = FALSE]]

\* a send_command that records the command before it looks at the status
mock_send_command_recording_first(m, command) ==
    IF m.should_fail_command THEN [result |-> "Mock command failure", state |-> m]
    ELSE IF ~m.is_running
    THEN [result |-> "Server is not running",
          state |-> [m EXCEPT !.commands_sent = Append(m.commands_sent, command)]]
    ELSE [result |-> "Ok",
          state |-> [m EXCEPT !.commands_sent = Append(m.commands_sent, command)]]

\* MockServerExecutor::send_command (server_executor.rs:187-198)
mock_send_command(m, command) ==
    IF m.should_fail_command THEN [result |-> "Mock command failure", state |-> m]
    ELSE IF ~m.is_running THEN [result |-> "Server is not running", state |-> m]
    ELSE [result |-> "Ok",
          state |-> [m EXCEPT !.commands_sent = Append(m.commands_sent, command)]]

\* MockServerExecutor::clear_commands (server_executor.rs:154-156)
mock_clear_commands(m) == [m EXCEPT !.commands_sent = <<>>]

\* the record of one call made on both executors
ExCall(op, command, os, m, c) ==
    [op |-> op, command |-> command, os |-> os,
     mock_result |-> m.result, child_result |-> c.result,
     mock_before |-> ex_mock, mock_after |-> m.state,
     child_before |-> ex_child, child_after |-> c.state]

\* the two executors as constructed
ExInit ==
    /\ ex_mock \in MockConstructors
    /\ ex_child = ChildNew
    /\ ex_calls = <<>>

\* start(config) on both executors
CallStart(os) ==
    /\ Len(ex_calls) < MaxExCalls
    /\ ex_mock' = mock_start(ex_mock).state
    /\ ex_child' = child_start(ex_child, os).state
    /\ ex_calls' = Append(ex_calls, ExCall("start", "", os, mock_start(ex_mock),
                                           child_start(ex_child, os)))
    /\ UNCHANGED <<earlyVars, lateVars, segVars, rtVars, vsVars, afterVars>>

\* stop() on both executors
CallStop(os) ==
    /\ Len(ex_calls) < MaxExCalls
    /\ ex_mock' = mock_stop(ex_mock).state
    /\ ex_child' = child_stop(ex_child, os).state
    /\ ex_calls' = Append(ex_calls, ExCall("stop", "", os, mock_stop(ex_mock),
                                           child_stop(ex_child, os)))
    /\ UNCHANGED <<earlyVars, lateVars, segVars, rtVars, vsVars, afterVars>>

\* send_command(command) on both executors
CallSendCommand(command, os) ==
    /\ Len(ex_calls) < MaxExCalls
    /\ ex_mock' = mock_send_command(ex_mock, command).state
    /\ ex_child' = child_send_command(ex_child, command, os).state
    /\ ex_calls' = Append(ex_calls,
           ExCall("send_command", command, os, mock_send_command(ex_mock, command),
                  child_send_command(ex_child, command, os)))
    /\ UNCHANGED <<earlyVars, lateVars, segVars, rtVars, vsVars, afterVars>>

\* clear_commands() on the mock
CallClearCommands ==
    /\ Len(ex_calls) < MaxExCalls
    /\ ex_mock' = mock_clear_commands(ex_mock)
    /\ ex_calls' = Append(ex_calls,
           ExCall("clear_commands", "", "ok",
                  [result |-> "Ok", state |-> mock_clear_commands(ex_mock)],
                  [result |-> "Ok", state |-> ex_child]))
    /\ UNCHANGED ex_child
    /\ UNCHANGED <<earlyVars, lateVars, segVars, rtVars, vsVars, afterVars>>

ExNext ==
    \/ \E os \in {"ok", "spawn fails"} : CallStart(os)
    \/ \E os \in {"ok", "write fails", "wait fails"} : CallStop(os)
    \/ \E command \in ExCommands, os \in {"ok", "write fails"} :
           CallSendCommand(command, os)
    \/ CallClearCommands

InitEx == ExInit /\ EarlyIdle /\ LateIdle /\ SegIdle /\ RtIdle /\ VsIdle /\ AfterIdle

SpecEx == InitEx /\ [][ExNext]_vars


\* the executor is running before call i, as its own start reads it
MockRunning(i) == ex_calls[i].mock_before.is_running

ChildRunning(i) == ex_calls[i].child_before.child

\* the results of the calls before call i
ResultsBefore(i, who) ==
    [j \in 1..(i - 1) |->
        [op |-> ex_calls[j].op,
         result |-> IF who = "mock" THEN ex_calls[j].mock_result
                    ELSE ex_calls[j].child_result]]

\* before call i the executor was never started, or every start failed, or
\* it was stopped with success and not started with success since
NotStarted(i, who) ==
    LET r == ResultsBefore(i, who)
    IN  \A j \in DOMAIN r :
            (r[j].op = "start" /\ r[j].result = "Ok")
            => \E n \in DOMAIN r : n > j /\ r[n].op = "stop" /\ r[n].result = "Ok"

\* the lifecycle guard at call i of an executor: its result, what it was
\* before and after the call, and whether it was running
Guarded(i, who, running, result, before, after) ==
    /\ (ex_calls[i].op = "start" /\ running)
       => result = "Server is already running" /\ after = before
    /\ (ex_calls[i].op = "send_command" /\ NotStarted(i, who))
       => result = "Server is not running" /\ after = before
    /\ (ex_calls[i].op = "stop" /\ NotStarted(i, who)) => result = "Ok"
    /\ result \in {"Server is already running", "Server is not running"}
       => after = before

\* the mock has no failure of stop or of send_command injected
NoInjectedFailure(i) ==
    /\ ~ex_calls[i].mock_before.should_fail_stop
    /\ ~ex_calls[i].mock_before.should_fail_command

RECURSIVE OkSentSinceClear(_)
OkSentSinceClear(calls) ==
    IF calls = <<>> THEN <<>>
    ELSE LET last == calls[Len(calls)]
             before == OkSentSinceClear(SubSeq(calls, 1, Len(calls) - 1))
         IN  IF last.op = "clear_commands" THEN <<>>
             ELSE IF last.op = "send_command" /\ last.mock_result = "Ok"
                  THEN Append(before, last.command)
                  ELSE before

\* C36: after any sequence of start, stop, send_command and clear_commands
\* the mock's commands_sent is, in call order, the commands whose
\* send_command returned Ok since the last clear_commands.
C36_CommandLog == ex_mock.commands_sent = OkSentSinceClear(ex_calls)

\* a command was recorded and a send_command was rejected
C36_Witness ==
    /\ ex_mock.commands_sent # <<>>
    /\ \E i \in DOMAIN ex_calls :
           ex_calls[i].op = "send_command" /\ ex_calls[i].mock_result # "Ok"

\* the mock is MockServerExecutor::new() and no spawn and no pipe write failed
SpawnsAndWritesSucceed ==
    /\ ~ex_mock.should_fail_start
    /\ ~ex_mock.should_fail_stop
    /\ ~ex_mock.should_fail_command
    /\ \A i \in DOMAIN ex_calls : ex_calls[i].os \notin {"spawn fails", "write fails"}

\* the two executors returned Ok at the same calls and agree after every
\* call on whether the server is running
SameOutcomes ==
    \A i \in DOMAIN ex_calls :
        /\ (ex_calls[i].mock_result = "Ok") <=> (ex_calls[i].child_result = "Ok")
        /\ ex_calls[i].mock_after.is_running = ex_calls[i].child_after.child

C37_NoLeakedSubprocess ==
    (started > 0 /\ (bot_pc = "start" \/ (bot_pc = "returned" /\ bot_result # "Ok")))
    => ~proc_open

\* how many lines the subprocess writes before and after the handle is gone
MaxStopLines == 4

\* everything but the handle, the subprocess and the stderr thread
handleFrame ==
    <<by_new, max_retries, bot_pc, retry_count, started, emitted, pipe,
      bot_result, attempts, owner, reader, chunk_rx, rx_alive, lines_left,
      leaked, genVars, propsVars, handleVars, posVars, regionVars, blockVars, chunkVars,
      listVars, nameVars, lateVars, segVars, rtVars, vsVars, exVars>>

\* err_lines.next() returns None (bot_spawner.rs:111): the subprocess is gone
\* and its pipe is closed
end_of_stream(open) == ~open

\* stop (bot_spawner.rs:200-219) or Drop (222-229) of the handle spawn_bot
\* returned: the subprocess is killed
StopOrDropHandle ==
    /\ bot_result = "Ok"
    /\ handle_end = "none"
    /\ handle_end' \in {"stopped", "dropped"}
    /\ proc_open' = FALSE
    /\ UNCHANGED err_reader_exited
    /\ UNCHANGED handleFrame

\* the stderr thread (bot_spawner.rs:110-114) of the handle's subprocess
\* leaves its loop
ErrReaderRead ==
    /\ bot_result = "Ok"
    /\ ~err_reader_exited
    /\ end_of_stream(proc_open)
    /\ err_reader_exited' = TRUE
    /\ UNCHANGED <<handle_end, proc_open>>
    /\ UNCHANGED handleFrame

BotStopNext == BotNext \/ LeakedExit \/ StopOrDropHandle \/ ErrReaderRead

\* spawn_bot is entered on a spawner made by with_retry_config; the
\* subprocess writes at most MaxStopLines lines
BotStopInit ==
    /\ by_new = FALSE
    /\ max_retries \in 0..1
    /\ bot_pc = "start"
    /\ retry_count = 0
    /\ started = 0
    /\ emitted = <<>>
    /\ pipe = <<>>
    /\ proc_open = FALSE
    /\ bot_result = "none"
    /\ attempts = 0
    /\ owner = 0
    /\ reader = "none"
    /\ chunk_rx = <<>>
    /\ rx_alive = TRUE
    /\ lines_left = MaxStopLines
    /\ leaked = 0

InitBotStop ==
    BotStopInit /\ GenIdle /\ PropsIdle /\ HandlesIdle /\ PosIdle /\ RegionIdle
    /\ BlocksIdle /\ ExtraIdle

SpecBotStop == InitBotStop /\ [][BotStopNext]_vars

\* the two threads are scheduled
FairSpecBotStop ==
    SpecBotStop /\ WF_vars(ReaderRead) /\ WF_vars(ErrReaderRead)

\* C38: once the handle was stopped or dropped, the stdout reader thread and
\* every stderr thread started for the bot eventually end.
C38_ReadersTerminate ==
    (handle_end # "none") ~> (reader = "exited" /\ err_reader_exited /\ leaked = 0)


\* ---------------------------------------------------------------------------
\* the schedule of generate_chunks with a server that stays up
\* (flex-mc infra/chunk_generator.rs:256-351)
\* ---------------------------------------------------------------------------

\* the server does not end by itself
ScheduleNext == GenProgram \/ ServerReady \/ ServerExecute

\* generate_chunks is entered; the server prints nothing but its readiness
\* line and its answers
ScheduleInit ==
    /\ chunk_list \in {S \in SUBSET ChunkUniverse : Cardinality(S) <= MaxChunks}
    /\ max_bot_count \in 1..MaxBots
    /\ quad_chunks = SortQuads({from_chunk(c) : c \in chunk_list})
    /\ gen_pc = "stage"
    /\ gen_result = "none"
    /\ child = "none"
    /\ reaped = FALSE
    /\ stdin = <<>>
    /\ srv_done = 0
    /\ srv_ready = FALSE
    /\ lines = <<>>
    /\ bots = <<>>
    /\ spawn_calls = 0
    /\ batch = 1
    /\ k = 1
    /\ success_count = 0
    /\ failure_count = 0
    /\ ready_seen = FALSE
    /\ confirmed = {}
    /\ noise_left = 0
    /\ fail_left = MaxFail
    /\ unflushed = 0

InitSchedule ==
    ScheduleInit /\ BotIdle /\ PropsIdle /\ HandlesIdle /\ PosIdle /\ RegionIdle
    /\ BlocksIdle /\ ExtraIdle

SpecSchedule == InitSchedule /\ [][ScheduleNext]_vars

\* generate_chunks runs on, and the server prints its readiness line and
\* answers every console command
FairSpecSchedule ==
    SpecSchedule /\ WF_vars(GenProgram) /\ WF_vars(ServerReady)
    /\ WF_vars(ServerExecute)

\* the positions in stdin of the tp lines
TpAt == {i \in DOMAIN stdin : stdin[i][1] = "tp"}

\* two tp lines of one batch: no probe was written between them
SameBatch(i, j) == \A n \in i..j : stdin[n][1] = "tp"

\* every tp line names a spawned bot, and two tp lines of one batch name two
\* different bots
TpNamesSpawnedBots ==
    /\ \A i \in TpAt : stdin[i][2] \in 0..(Len(bots) - 1)
    /\ \A i, j \in TpAt : (i < j /\ SameBatch(i, j)) => stdin[i][2] # stdin[j][2]

\* the quad chunks of the batches already begun have one tp line each, the
\* others none
OneTpPerQuad ==
    \A n \in DOMAIN quad_chunks :
        Cardinality({i \in TpAt : <<stdin[i][3], stdin[i][4]>> =
                        <<center_block_pos(quad_chunks[n]).x,
                          center_block_pos(quad_chunks[n]).z>>}) <= 1

\* the schedule is over: every quad chunk got its tp line, nothing is
\* outstanding and every bot is still there
ScheduleOver ==
    /\ Cardinality(TpAt) = Len(quad_chunks)
    /\ \A n \in DOMAIN quad_chunks :
           \E i \in TpAt : stdin[i][3] = center_block_pos(quad_chunks[n]).x
                           /\ stdin[i][4] = center_block_pos(quad_chunks[n]).z
    /\ Pending = {}
    /\ batch = NumBatches + 1

\* C39: with a server that stays up and answers every command, once the bots
\* are spawned generate_chunks writes one tp line for every quad chunk of the
\* request, at most one per bot and batch and each for a spawned bot, takes
\* every batch once, and returns Ok; the batch loop is left with nothing
\* outstanding and with every bot still running.
C39_ScheduleTerminates ==
    /\ [](TpNamesSpawnedBots /\ OneTpPerQuad)
    /\ []((gen_pc = "save_all") =>
            (ScheduleOver /\ \A i \in DOMAIN bots : bots[i] = "running"))
    /\ [](gen_result = "Ok" => ScheduleOver)
    /\ (gen_pc \in {"tp", "save_all"}) ~> (gen_result = "Ok")

\* generate_chunks returned Ok after two batches, one of which was probed
\* again after a `not loaded` reply
C39_Witness ==
    /\ gen_result = "Ok"
    /\ Len(quad_chunks) = 2
    /\ max_bot_count = 1
    /\ fail_left = 0

=============================================================================
